---- MODULE Spec2Model ----
(***************************************************************************)
(* Economy engine, purchase managers, zustand game store and bot control   *)
(* loop of the idle clicker game.                                          *)
(*                                                                         *)
(* Decimal quantities are fixed-point integers: a Decimal d is stored as   *)
(* d * Scale.  Every product and power the model takes is exact at this    *)
(* scale within the bounds below.                                          *)
(***************************************************************************)
EXTENDS Integers, Sequences, FiniteSets, TLC

VARIABLES
  gameState,   \* the zustand store's game state
  result,      \* what the last call returned: "ok", "fail", or "throw" when it raised
  phase,       \* "reset" while a prestige reset is running its helpers, else "play"
  bot,         \* the GameBot instance
  now          \* Date.now(), in bot update periods

vars ==
  <<gameState, result, phase, bot, now>>

----------------------------------------------------------------------------
(* Bounds of the model                                                      *)

MaxEarned ==
  2600

MaxClicks ==
  1

MaxOwned ==
  2

MaxPrestiges ==
  1

\* the bot is watched for this many 50 ms timer periods
MaxPeriods ==
  6

\* generator purchases with any amount stop once this much was spent
MaxSpent ==
  60

\* an upgrade is bought at most this many times
MaxBought ==
  3

\* the passive bot has at most this many whole clicks in its bank
MaxAvailableClicks ==
  3

\* a long run earns currency in steps of Windfall, up to MaxLateEarned
Windfall ==
  10000

MaxLateEarned ==
  150000

\* the currency of the player who hands a game over to a batching bot
BatchCurrency ==
  40

\* the currency a player has earned when the shop is studied
StartCurrency ==
  5600

----------------------------------------------------------------------------
(* Decimal arithmetic                                                       *)

Scale ==
  1000

D(n) ==
  n * Scale

ZERO ==
  D(0)

ONE ==
  D(1)

RECURSIVE Pow(_, _)
Pow(b, n) ==
  IF n <= 0 THEN 1 ELSE b * Pow(b, n - 1)

\* Decimal.ceil of the fixed-point value num/den (num, den > 0 or num = 0)
CeilDiv(num, den) ==
  ((num + den - 1) \div den) * Scale

RECURSIVE GCD(_, _)
GCD(a, b) ==
  IF b = 0 THEN a ELSE GCD(b, a % b)

Abs(x) ==
  IF x < 0 THEN 0 - x ELSE x

\* floor(base * num / den), with the common factor of base and den taken out
\* first so that the product stays within the integers of the checker
TimesOver(base, num, den) ==
  ((base \div GCD(base, den)) * num) \div (den \div GCD(base, den))

\* ... and ceil(base * num / den) as an integer Decimal
CeilTimesOver(base, num, den) ==
  CeilDiv((base \div GCD(base, den)) * num, den \div GCD(base, den))

\* Decimal product baseCost * (cmN/cmD)^n, as a fixed-point value
\* (a negative exponent inverts the multiplier, as Decimal.pow does)
CostAt(baseCost, cmN, cmD, n) ==
  IF n >= 0 THEN TimesOver(baseCost * Scale, Pow(cmN, n), Pow(cmD, n))
  ELSE TimesOver(baseCost * Scale, Pow(cmD, 0 - n), Pow(cmN, 0 - n))

\* ... and the same product rounded up to an integer Decimal
CeilCostAt(baseCost, cmN, cmD, n) ==
  IF n >= 0 THEN CeilTimesOver(baseCost, Pow(cmN, n), Pow(cmD, n))
  ELSE CeilTimesOver(baseCost, Pow(cmD, 0 - n), Pow(cmN, 0 - n))

----------------------------------------------------------------------------
(* Entity catalog                                                           *)

GeneratorIds ==
  {"bot", "script-farm"}

UpgradeIds ==
  {"base-value-1", "click-power-3"}

UnknownId ==
  "no-such-id"

INITIAL_IDLE_GENERATORS ==
  [ g \in GeneratorIds |->
      IF g = "bot"
      THEN [baseProduction |-> Scale \div 2, baseCost |-> 10, cmN |-> 11, cmD |-> 10,
            owned |-> 0, unlocked |-> TRUE, hasUnlockCondition |-> FALSE]
      ELSE [baseProduction |-> D(2), baseCost |-> 50, cmN |-> 11, cmD |-> 10,
            owned |-> 0, unlocked |-> FALSE, hasUnlockCondition |-> TRUE] ]

getInitialUpgrades ==
  [ u \in UpgradeIds |->
      IF u = "base-value-1"
      THEN [baseCost |-> 200, cmN |-> 3, cmD |-> 2, maxPurchases |-> 10,
            currentPurchases |-> 0, unlocked |-> FALSE]
      ELSE [baseCost |-> 800, cmN |-> 2, cmD |-> 1, maxPurchases |-> 2,
            currentPurchases |-> 0, unlocked |-> FALSE] ]

\* unlockCondition closure of a generator
GeneratorUnlockCondition(g, gs) ==
  IF g = "script-farm" THEN gs.totalEarned >= D(25) ELSE TRUE

\* unlockCondition closure of an upgrade
UpgradeUnlockCondition(u, gs) ==
  IF u = "base-value-1" THEN gs.totalEarned >= D(100)
  ELSE gs.totalEarned >= D(250)

\* effect.apply of an upgrade raises (TypeError: push of undefined)
ApplyThrows(u, gs) ==
  u = "click-power-3" /\ ~gs.temporaryEffectsDefined

\* milliseconds a Viral Moment lasts at simulation speed 1
ViralMomentDuration ==
  10000

\* effect.apply closure of an upgrade, on a state where it does not raise; the
\* temporary effect it pushes carries its apply and remove closures (live)
ApplyEffect(u, gs) ==
  IF u = "base-value-1"
  THEN [gs EXCEPT !.baseClickValue = @ + D(1),
                  !.idleMultiplier = [n |-> @.n * 11, d |-> @.d * 10]]
  ELSE [gs EXCEPT !.temporaryEffects =
                     Append(@, [name |-> "Viral Moment", value |-> 5,
                                startTime |-> now,
                                duration |-> ViralMomentDuration \div gs.simulationSpeed,
                                live |-> TRUE]),
                  !.clickMultiplier = @ * 5]

----------------------------------------------------------------------------
(* Game store                                                               *)

createInitialGameState ==
  [ currency |-> ZERO, totalEarned |-> ZERO, totalClicks |-> 0,
    engagement |-> ONE,
    clickMultiplier |-> ONE, baseClickValue |-> ONE,
    idleMultiplier |-> [n |-> 1, d |-> 1],
    idleGenerators |-> [g \in GeneratorIds |->
                          [owned |-> INITIAL_IDLE_GENERATORS[g].owned,
                           unlocked |-> INITIAL_IDLE_GENERATORS[g].unlocked]],
    upgrades |-> [u \in UpgradeIds |->
                          [currentPurchases |-> getInitialUpgrades[u].currentPurchases,
                           unlocked |-> getInitialUpgrades[u].unlocked]],
    purchasedUpgrades |-> {},
    prestigePoints |-> ZERO, totalPrestiges |-> 0,
    metaPrestigePoints |-> ZERO, totalMetaPrestiges |-> 0,
    unlockedAchievements |-> {},
    temporaryEffectsDefined |-> FALSE, temporaryEffects |-> <<>>,
    simulationSpeed |-> 1 ]

\* state restored by the persist middleware from a save of an earlier run
persistedGameState ==
  [ createInitialGameState EXCEPT
      !.engagement = ONE + (Scale \div 2),
      !.metaPrestigePoints = D(1), !.totalMetaPrestiges = 1,
      !.unlockedAchievements = {"first-click"},
      !.temporaryEffectsDefined = TRUE ]

\* updateCurrency adding every amount, negative ones too, to totalEarned
updateCurrency_countingSpending(gs, amount) ==
  [gs EXCEPT !.currency = @ + amount, !.totalEarned = @ + amount]

\* store.updateCurrency(amount)
updateCurrency(gs, amount) ==
  [gs EXCEPT !.currency = @ + amount,
             !.totalEarned = @ + (IF amount >= 0 THEN amount ELSE ZERO)]

\* store.addClicks(count)
addClicks(gs, count) ==
  [gs EXCEPT !.totalClicks = @ + count]

\* store.getGameState(): a shallow copy; Decimal fields are fresh objects,
\* arrays and sets are shared with the store
getGameState(gs) ==
  gs

\* what the store holds after code mutated the shallow copy `copy` of `store`:
\* assignments to scalar fields stay in the copy, in-place mutations of the
\* shared arrays reach the store
StoreAfterCopyMutation(store, copy) ==
  [store EXCEPT !.temporaryEffects = copy.temporaryEffects]

\* serializeGameState(state): Decimals become strings, sets become arrays and
\* the closures are dropped; the version of the store that keeps temporary
\* effects writes them too
serializeGameState(gs) ==
  [ currency |-> gs.currency, totalEarned |-> gs.totalEarned,
    totalClicks |-> gs.totalClicks, engagement |-> gs.engagement,
    clickMultiplier |-> gs.clickMultiplier, baseClickValue |-> gs.baseClickValue,
    idleMultiplier |-> gs.idleMultiplier,
    idleGenerators |-> gs.idleGenerators, upgrades |-> gs.upgrades,
    purchasedUpgrades |-> gs.purchasedUpgrades,
    prestigePoints |-> gs.prestigePoints, totalPrestiges |-> gs.totalPrestiges,
    metaPrestigePoints |-> gs.metaPrestigePoints,
    totalMetaPrestiges |-> gs.totalMetaPrestiges,
    unlockedAchievements |-> gs.unlockedAchievements,
    hasTemporaryEffects |-> gs.temporaryEffectsDefined,
    temporaryEffects |-> gs.temporaryEffects ]

\* a restoration that starts the effects of a save anew at the time of loading
restoredEffects_restarted(effects) ==
  [i \in 1..Len(effects) |-> [effects[i] EXCEPT !.startTime = now, !.live = FALSE]]

\* the temporary effects of a save as deserializeGameState rebuilds them:
\* apply and remove are replaced by functions that do nothing
restoredEffects(effects) ==
  [i \in 1..Len(effects) |-> [effects[i] EXCEPT !.live = FALSE]]

\* deserializeGameState(serialized): the owned, currentPurchases and unlocked
\* fields are those of the save; engagement defaults to 1 when the save has
\* none; `keepsEffects` tells the version of the store that restores
\* temporaryEffects (as [] when the save has none) from the one that does not
deserializeGameState(serialized, keepsEffects) ==
  [ currency |-> serialized.currency, totalEarned |-> serialized.totalEarned,
    totalClicks |-> serialized.totalClicks,
    engagement |-> IF serialized.engagement = ZERO THEN ONE ELSE serialized.engagement,
    clickMultiplier |-> serialized.clickMultiplier,
    baseClickValue |-> serialized.baseClickValue,
    idleMultiplier |-> serialized.idleMultiplier,
    idleGenerators |-> serialized.idleGenerators, upgrades |-> serialized.upgrades,
    purchasedUpgrades |-> serialized.purchasedUpgrades,
    prestigePoints |-> serialized.prestigePoints,
    totalPrestiges |-> serialized.totalPrestiges,
    metaPrestigePoints |-> serialized.metaPrestigePoints,
    totalMetaPrestiges |-> serialized.totalMetaPrestiges,
    unlockedAchievements |-> serialized.unlockedAchievements,
    temporaryEffectsDefined |-> keepsEffects,
    temporaryEffects |-> IF keepsEffects /\ serialized.hasTemporaryEffects
                         THEN restoredEffects(serialized.temporaryEffects) ELSE <<>>,
    simulationSpeed |-> 1 ]

\* store.loadGame(saveData)
loadGame(gs, saveData) ==
  deserializeGameState(saveData, gs.temporaryEffectsDefined)

----------------------------------------------------------------------------
(* UpgradeManager                                                           *)

isUpgradeUnlocked(u, gs) ==
  IF ~gs.upgrades[u].unlocked THEN UpgradeUnlockCondition(u, gs) ELSE TRUE

\* a getUpgradeCost that charges the base cost whatever was bought before
getUpgradeCost_flat(u, gs) ==
  CeilCostAt(getInitialUpgrades[u].baseCost, 1, 1, gs.upgrades[u].currentPurchases)

getUpgradeCost(u, gs) ==
  LET c == getInitialUpgrades[u]
  IN  CeilCostAt(c.baseCost, c.cmN, c.cmD, gs.upgrades[u].currentPurchases)

\* canAffordUpgrade without the test of the purchase limit
canAffordUpgrade_ignoringMax(u, gs) ==
  IF ~isUpgradeUnlocked(u, gs) THEN FALSE
  ELSE gs.currency >= getUpgradeCost(u, gs)

canAffordUpgrade(u, gs) ==
  IF gs.upgrades[u].currentPurchases >= getInitialUpgrades[u].maxPurchases
  THEN FALSE
  ELSE IF ~isUpgradeUnlocked(u, gs) THEN FALSE
  ELSE gs.currency >= getUpgradeCost(u, gs)

updateUpgradeUnlocks(gs) ==
  [gs EXCEPT !.upgrades =
     [u \in UpgradeIds |->
        IF ~gs.upgrades[u].unlocked
        THEN [gs.upgrades[u] EXCEPT !.unlocked = UpgradeUnlockCondition(u, gs)]
        ELSE gs.upgrades[u]]]

\* the statements of the try block after the cost was deducted and the
\* effect applied
CommitUpgrade(u, gs) ==
  [gs EXCEPT !.upgrades[u].currentPurchases = @ + 1,
             !.purchasedUpgrades =
                IF getInitialUpgrades[u].maxPurchases = 1 THEN @ \cup {u} ELSE @]

purchaseUpgrade(id, gs) ==
  IF id \notin UpgradeIds THEN [gs |-> gs, res |-> "fail", n |-> 0]
  ELSE IF ~canAffordUpgrade(id, gs) THEN [gs |-> gs, res |-> "fail", n |-> 0]
  ELSE LET cost == getUpgradeCost(id, gs)
           paid == [gs EXCEPT !.currency = @ - cost]
       IN  IF ApplyThrows(id, paid)
           THEN [gs |-> paid, res |-> "fail", n |-> 0]
           ELSE [gs |-> updateUpgradeUnlocks(
                          [CommitUpgrade(id, ApplyEffect(id, paid))
                             EXCEPT !.upgrades[id].unlocked = TRUE]),
                 res |-> "ok", n |-> 1]

RECURSIVE MaxAffordableLoop(_, _, _, _, _)
MaxAffordableLoop(u, gs, i, totalCost, count) ==
  LET c == getInitialUpgrades[u]
      remainingPurchases == c.maxPurchases - gs.upgrades[u].currentPurchases
      cost == CeilCostAt(c.baseCost, c.cmN, c.cmD,
                         gs.upgrades[u].currentPurchases + i)
  IN  IF i >= remainingPurchases THEN count
      ELSE IF totalCost + cost <= gs.currency
           THEN MaxAffordableLoop(u, gs, i + 1, totalCost + cost, count + 1)
           ELSE count

getMaxAffordableUpgrades(u, gs) ==
  IF ~isUpgradeUnlocked(u, gs) THEN 0
  ELSE IF getInitialUpgrades[u].maxPurchases - gs.upgrades[u].currentPurchases <= 0
       THEN 0
       ELSE MaxAffordableLoop(u, gs, 0, ZERO, 0)

RECURSIVE PurchaseMaxLoop(_, _, _, _, _)
PurchaseMaxLoop(u, gs, i, maxAffordable, purchasesMade) ==
  IF i >= maxAffordable
  THEN [gs |-> gs, made |-> purchasesMade, threw |-> FALSE]
  ELSE LET cost == getUpgradeCost(u, gs)
       IN  IF gs.currency >= cost
           THEN LET paid == [gs EXCEPT !.currency = @ - cost]
                IN  IF ApplyThrows(u, paid)
                    THEN [gs |-> paid, made |-> purchasesMade, threw |-> TRUE]
                    ELSE PurchaseMaxLoop(u, CommitUpgrade(u, ApplyEffect(u, paid)),
                                         i + 1, maxAffordable, purchasesMade + 1)
           ELSE [gs |-> gs, made |-> purchasesMade, threw |-> FALSE]

purchaseMaxUpgrades(id, gs) ==
  IF id \notin UpgradeIds THEN [gs |-> gs, res |-> "fail", n |-> 0]
  ELSE LET maxAffordable == getMaxAffordableUpgrades(id, gs)
       IN  IF maxAffordable = 0 THEN [gs |-> gs, res |-> "fail", n |-> 0]
           ELSE LET r == PurchaseMaxLoop(id, gs, 0, maxAffordable, 0)
                IN  IF r.threw
                    THEN [gs |-> r.gs,
                          res |-> IF r.made = 0 THEN "fail" ELSE "ok",
                          n |-> r.made]
                    ELSE [gs |-> updateUpgradeUnlocks(
                                   [r.gs EXCEPT !.upgrades[id].unlocked = TRUE]),
                          res |-> IF r.made = 0 THEN "fail" ELSE "ok",
                          n |-> r.made]

resetUpgrades(gs) ==
  LET zeroed == [gs EXCEPT !.upgrades =
                   [u \in UpgradeIds |-> [gs.upgrades[u] EXCEPT !.currentPurchases = 0]]]
  IN  [zeroed EXCEPT
         !.upgrades = [u \in UpgradeIds |->
                         [zeroed.upgrades[u] EXCEPT
                            !.unlocked = UpgradeUnlockCondition(u, gs)]],
         !.purchasedUpgrades = {}]

----------------------------------------------------------------------------
(* IdleManager                                                              *)

RECURSIVE GeneratorCostLoop(_, _, _, _)
GeneratorCostLoop(g, owned, i, amount) ==
  LET c == INITIAL_IDLE_GENERATORS[g]
  IN  IF i >= amount THEN ZERO
      ELSE CostAt(c.baseCost, c.cmN, c.cmD, owned + i)
           + GeneratorCostLoop(g, owned, i + 1, amount)

getGeneratorCost(g, gs, amount) ==
  GeneratorCostLoop(g, gs.idleGenerators[g].owned, 0, amount)

\* canAffordGenerator without its test of the unlocked flag
canAffordGenerator_ignoringLock(g, gs, amount) ==
  gs.currency >= getGeneratorCost(g, gs, amount)

canAffordGenerator(g, gs, amount) ==
  IF ~gs.idleGenerators[g].unlocked THEN FALSE
  ELSE gs.currency >= getGeneratorCost(g, gs, amount)

\* purchaseGenerator without its affordability check
purchaseGenerator_unchecked(id, gs, amount) ==
  IF id \notin GeneratorIds THEN [gs |-> gs, res |-> "fail", n |-> 0]
  ELSE [gs |-> [gs EXCEPT !.currency = @ - getGeneratorCost(id, gs, amount),
                          !.idleGenerators[id].owned = @ + amount],
        res |-> "ok", n |-> amount]

purchaseGenerator(id, gs, amount) ==
  IF id \notin GeneratorIds THEN [gs |-> gs, res |-> "fail", n |-> 0]
  ELSE IF ~canAffordGenerator(id, gs, amount)
       THEN [gs |-> gs, res |-> "fail", n |-> 0]
       ELSE LET cost == getGeneratorCost(id, gs, amount)
            IN  [gs |-> [gs EXCEPT !.currency = @ - cost,
                                   !.idleGenerators[id].owned = @ + amount],
                 res |-> "ok", n |-> amount]

\* updateGeneratorUnlocks setting every flag to the current value of the
\* unlock condition
updateGeneratorUnlocks_recomputing(gs) ==
  [gs EXCEPT !.idleGenerators =
     [g \in GeneratorIds |->
        IF INITIAL_IDLE_GENERATORS[g].hasUnlockCondition
        THEN [gs.idleGenerators[g] EXCEPT !.unlocked = GeneratorUnlockCondition(g, gs)]
        ELSE gs.idleGenerators[g]]]

updateGeneratorUnlocks(gs) ==
  [gs EXCEPT !.idleGenerators =
     [g \in GeneratorIds |->
        IF ~gs.idleGenerators[g].unlocked
           /\ INITIAL_IDLE_GENERATORS[g].hasUnlockCondition
           /\ GeneratorUnlockCondition(g, gs)
        THEN [gs.idleGenerators[g] EXCEPT !.unlocked = TRUE]
        ELSE gs.idleGenerators[g]]]

resetGenerators(gs) ==
  [gs EXCEPT !.idleGenerators =
     [g \in GeneratorIds |->
        [owned |-> 0,
         unlocked |-> IF INITIAL_IDLE_GENERATORS[g].hasUnlockCondition
                      THEN GeneratorUnlockCondition(g, gs)
                      ELSE gs.idleGenerators[g].unlocked]]]

calculateTotalProduction(gs) ==
  LET bots == INITIAL_IDLE_GENERATORS["bot"].baseProduction
               * gs.idleGenerators["bot"].owned
      farm == INITIAL_IDLE_GENERATORS["script-farm"].baseProduction
               * gs.idleGenerators["script-farm"].owned
  IN  ((bots + farm) * gs.idleMultiplier.n) \div gs.idleMultiplier.d

----------------------------------------------------------------------------
(* GameEngine                                                               *)

GameEngine_getUpgradeCost(u, gs) ==
  LET c == getInitialUpgrades[u]
  IN  IF gs.upgrades[u].currentPurchases = 0 THEN D(c.baseCost)
      ELSE CostAt(c.baseCost, c.cmN, c.cmD, gs.upgrades[u].currentPurchases)

GameEngine_canAffordUpgrade(u, gs) ==
  IF ~gs.upgrades[u].unlocked
     \/ gs.upgrades[u].currentPurchases >= getInitialUpgrades[u].maxPurchases
  THEN FALSE
  ELSE gs.currency >= GameEngine_getUpgradeCost(u, gs)

GameEngine_purchaseUpgrade(id, gs) ==
  LET state == getGameState(gs)
  IN  IF id \notin UpgradeIds THEN [gs |-> gs, res |-> "fail", n |-> 0]
      ELSE IF ~GameEngine_canAffordUpgrade(id, state)
      THEN [gs |-> gs, res |-> "fail", n |-> 0]
      ELSE LET cost == GameEngine_getUpgradeCost(id, state)
               paid == updateCurrency(gs, 0 - cost)
           IN  IF ApplyThrows(id, state)
               THEN [gs |-> paid, res |-> "throw", n |-> 0]
               ELSE [gs |-> CommitUpgrade(id,
                              StoreAfterCopyMutation(paid, ApplyEffect(id, state))),
                     res |-> "ok", n |-> 1]

GameEngine_getGeneratorCost(g, gs, amount) ==
  GeneratorCostLoop(g, gs.idleGenerators[g].owned, 0, amount)

GameEngine_canAffordGenerator(g, gs, amount) ==
  IF ~gs.idleGenerators[g].unlocked THEN FALSE
  ELSE gs.currency >= GameEngine_getGeneratorCost(g, gs, amount)

GameEngine_purchaseGenerator(id, gs, amount) ==
  LET state == getGameState(gs)
  IN  IF id \notin GeneratorIds THEN [gs |-> gs, res |-> "fail", n |-> 0]
      ELSE IF ~GameEngine_canAffordGenerator(id, state, amount)
      THEN [gs |-> gs, res |-> "fail", n |-> 0]
      ELSE LET cost == GameEngine_getGeneratorCost(id, state, amount)
           IN  [gs |-> [updateCurrency(gs, 0 - cost)
                          EXCEPT !.idleGenerators[id].owned = @ + amount],
                res |-> "ok", n |-> amount]

performClick(gs) ==
  LET state == getGameState(gs)
      clickValue == (state.baseClickValue * state.clickMultiplier) \div Scale
  IN  addClicks(updateCurrency(gs, clickValue), 1)

updateIdleProgress(gs, deltaTime) ==
  LET totalProduction == calculateTotalProduction(getGameState(gs))
  IN  IF totalProduction = ZERO THEN gs
      ELSE updateCurrency(gs, totalProduction * deltaTime)

PrestigeThreshold ==
  1000

canPrestige(gs) ==
  gs.totalEarned >= D(PrestigeThreshold)

\* Decimal.sqrt().floor() of the fixed-point value x
FloorSqrt(x) ==
  LET units == x \div Scale
  IN  CHOOSE r \in 0..units : r * r <= units /\ (r + 1) * (r + 1) > units

\* a calculatePrestigeGain without the minimum of one point
calculatePrestigeGain_unclamped(gs) ==
  D(FloorSqrt(gs.totalEarned \div PrestigeThreshold))

calculatePrestigeGain(gs) ==
  LET gain == D(FloorSqrt(gs.totalEarned \div PrestigeThreshold))
  IN  IF gain > ZERO THEN gain ELSE ONE

\* performPrestige that forgets to reset the upgrades' purchase counts
performPrestige_keepingPurchases(gs) ==
  IF ~canPrestige(gs) THEN gs
  ELSE [gs EXCEPT
          !.currency = ZERO,
          !.totalClicks = 0,
          !.totalEarned = ZERO,
          !.baseClickValue = ONE,
          !.clickMultiplier = ONE,
          !.idleGenerators = [g \in GeneratorIds |->
                                [gs.idleGenerators[g] EXCEPT !.owned = 0]],
          !.idleMultiplier = [n |-> 1, d |-> 1],
          !.purchasedUpgrades = {},
          !.prestigePoints = @ + calculatePrestigeGain(gs),
          !.totalPrestiges = @ + 1]

\* performPrestige that forgets to count the prestige
performPrestige_notCounting(gs) ==
  IF ~canPrestige(gs) THEN gs
  ELSE LET prestigeGain == calculatePrestigeGain(gs)
           state == getGameState(gs)
       IN  [state EXCEPT
              !.currency = ZERO,
              !.totalClicks = 0,
              !.totalEarned = ZERO,
              !.baseClickValue = ONE,
              !.clickMultiplier = ONE,
              !.idleGenerators = [g \in GeneratorIds |->
                                    [state.idleGenerators[g] EXCEPT !.owned = 0]],
              !.idleMultiplier = [n |-> 1, d |-> 1],
              !.upgrades = [u \in UpgradeIds |->
                              [state.upgrades[u] EXCEPT !.currentPurchases = 0]],
              !.purchasedUpgrades = {},
              !.prestigePoints = @ + prestigeGain]

\* a performPrestige that resets whether or not the requirement is met
performPrestige_unchecked(gs) ==
  [getGameState(gs) EXCEPT
     !.currency = ZERO,
     !.totalClicks = 0,
     !.totalEarned = ZERO,
     !.baseClickValue = ONE,
     !.clickMultiplier = ONE,
     !.idleGenerators = [g \in GeneratorIds |->
                           [getGameState(gs).idleGenerators[g] EXCEPT !.owned = 0]],
     !.idleMultiplier = [n |-> 1, d |-> 1],
     !.upgrades = [u \in UpgradeIds |->
                     [getGameState(gs).upgrades[u] EXCEPT !.currentPurchases = 0]],
     !.purchasedUpgrades = {},
     !.prestigePoints = @ + calculatePrestigeGain(gs),
     !.totalPrestiges = @ + 1]

performPrestige(gs) ==
  IF ~canPrestige(gs) THEN gs
  ELSE LET prestigeGain == calculatePrestigeGain(gs)
           state == getGameState(gs)
       IN  [state EXCEPT
              !.currency = ZERO,
              !.totalClicks = 0,
              !.totalEarned = ZERO,
              !.baseClickValue = ONE,
              !.clickMultiplier = ONE,
              !.idleGenerators = [g \in GeneratorIds |->
                                    [state.idleGenerators[g] EXCEPT !.owned = 0]],
              !.idleMultiplier = [n |-> 1, d |-> 1],
              !.upgrades = [u \in UpgradeIds |->
                              [state.upgrades[u] EXCEPT !.currentPurchases = 0]],
              !.purchasedUpgrades = {},
              !.prestigePoints = @ + prestigeGain,
              !.totalPrestiges = @ + 1]

\* GameEngine.canMetaPrestige()
MetaPrestigeRequirement == 10
MetaPrestigePointsRequirement == 1000

canMetaPrestige(gs) ==
  /\ gs.totalPrestiges >= MetaPrestigeRequirement
  /\ gs.prestigePoints >= D(MetaPrestigePointsRequirement)

\* GameEngine.calculateMetaPrestigeGain(): floor(sqrt(prestigePoints / 100)),
\* at least one
MetaPrestigeDivisor == 100

calculateMetaPrestigeGain(gs) ==
  LET gain == D(FloorSqrt(gs.prestigePoints \div MetaPrestigeDivisor))
  IN  IF gain > ZERO THEN gain ELSE ONE

\* GameEngine.performMetaPrestige()
performMetaPrestige(gs) ==
  IF ~canMetaPrestige(gs) THEN gs
  ELSE LET metaPrestigeGain == calculateMetaPrestigeGain(gs)
           state == getGameState(gs)
       IN  [state EXCEPT
              !.currency = ZERO,
              !.totalClicks = 0,
              !.totalEarned = ZERO,
              !.baseClickValue = ONE,
              !.clickMultiplier = ONE,
              !.idleGenerators = [g \in GeneratorIds |->
                                    [state.idleGenerators[g] EXCEPT !.owned = 0]],
              !.idleMultiplier = [n |-> 1, d |-> 1],
              !.upgrades = [u \in UpgradeIds |->
                              [state.upgrades[u] EXCEPT !.currentPurchases = 0]],
              !.purchasedUpgrades = {},
              !.prestigePoints = ZERO,
              !.totalPrestiges = 0,
              !.metaPrestigePoints = @ + metaPrestigeGain,
              !.totalMetaPrestiges = @ + 1]

----------------------------------------------------------------------------
(* BotStrategy                                                              *)
(* The strategy computes with JavaScript numbers; the model keeps every     *)
(* efficiency and click rate as an exact fraction in lowest terms.          *)

\* the fraction n/d (d # 0) in lowest terms with a positive denominator
Rat(n, d) ==
  LET g == GCD(Abs(n), Abs(d))
      sgn == IF d < 0 THEN 0 - 1 ELSE 1
  IN  [n |-> sgn * (n \div g), d |-> sgn * (d \div g)]

RatAdd(a, b) ==
  LET g == GCD(a.d, b.d)
  IN  Rat(a.n * (b.d \div g) + b.n * (a.d \div g), (a.d \div g) * b.d)

\* the product, with the common factors taken out before multiplying
RatMul(a, b) ==
  LET g1 == GCD(Abs(a.n), b.d)
      g2 == GCD(Abs(b.n), a.d)
  IN  Rat((a.n \div g1) * (b.n \div g2), (a.d \div g2) * (b.d \div g1))

\* a >= b, compared by integer parts and then by the remainders' reciprocals
RECURSIVE RatGE(_, _)
RatGE(a, b) ==
  LET qa == a.n \div a.d
      qb == b.n \div b.d
      ra == a.n - qa * a.d
      rb == b.n - qb * b.d
  IN  IF qa # qb THEN qa > qb
      ELSE IF rb = 0 THEN TRUE
      ELSE IF ra = 0 THEN FALSE
      ELSE RatGE([n |-> b.d, d |-> rb], [n |-> a.d, d |-> ra])

RatGT(a, b) ==
  ~RatGE(b, a)

\* a Decimal (fixed-point) as a fraction
RatOfDecimal(x) ==
  Rat(x, Scale)

RECURSIVE RatSum(_)
RatSum(rates) ==
  IF rates = <<>> THEN Rat(0, 1) ELSE RatAdd(Head(rates), RatSum(Tail(rates)))

\* BotStrategy.getClicksPerSecond(): the observed rate, or 1 when none
getClicksPerSecond(recentClickRate) ==
  IF RatGT(recentClickRate, Rat(0, 1)) THEN recentClickRate ELSE Rat(1, 1)

\* BotStrategy.calculateGeneratorCost(generator)
calculateGeneratorCost(g, gs) ==
  LET c == INITIAL_IDLE_GENERATORS[g]
  IN  CeilCostAt(c.baseCost, c.cmN, c.cmD, gs.idleGenerators[g].owned)

\* BotStrategy.calculateUpgradeCost(upgrade)
calculateUpgradeCost(u, gs) ==
  LET c == getInitialUpgrades[u]
  IN  CeilCostAt(c.baseCost, c.cmN, c.cmD, gs.upgrades[u].currentPurchases)

\* BotStrategy.estimateIdleProduction(gameState)
estimateIdleProduction(gs) ==
  LET total == INITIAL_IDLE_GENERATORS["bot"].baseProduction
                 * gs.idleGenerators["bot"].owned
               + INITIAL_IDLE_GENERATORS["script-farm"].baseProduction
                 * gs.idleGenerators["script-farm"].owned
  IN  RatMul(RatOfDecimal(total), Rat(gs.idleMultiplier.n, gs.idleMultiplier.d))

\* BotStrategy.evaluateGenerator(generator, gameState)
evaluateGenerator(g, gs) ==
  LET cost == calculateGeneratorCost(g, gs)
      productionGain == RatMul(RatOfDecimal(INITIAL_IDLE_GENERATORS[g].baseProduction),
                               Rat(gs.idleMultiplier.n, gs.idleMultiplier.d))
      efficiency == RatMul(productionGain, Rat(Scale, cost))
  IN  [type |-> IF gs.currency >= cost THEN "generator" ELSE "none",
       id |-> g, amount |-> 1, cost |-> cost, efficiency |-> efficiency]

\* BotStrategy.evaluateUpgrade(upgrade, gameState)
evaluateUpgrade(u, gs, recentClickRate) ==
  LET cost == calculateUpgradeCost(u, gs)
      clicksPerSecond == getClicksPerSecond(recentClickRate)
      valueEstimate ==
        IF u = "base-value-1"
        THEN RatAdd(RatMul(RatOfDecimal(gs.clickMultiplier), clicksPerSecond),
                    RatMul(estimateIdleProduction(gs), Rat(1, 10)))
        ELSE RatMul(RatMul(RatOfDecimal((gs.baseClickValue * gs.clickMultiplier) \div Scale),
                           clicksPerSecond),
                    Rat((5 - 1) * 10, 60))
      efficiency == RatMul(valueEstimate, Rat(Scale, cost))
  IN  [type |-> IF gs.currency >= cost THEN "upgrade" ELSE "none",
       id |-> u, amount |-> 1, cost |-> cost, efficiency |-> efficiency]

\* the order in which decideNextPurchase collects its candidates
CandidateOrder ==
  <<"bot", "script-farm", "base-value-1", "click-power-3">>

\* candidates kept without the tests of the unlocked flag and of the
\* purchase maximum
Decisions_keepingAll(gs, recentClickRate) ==
  LET decision(id) ==
        IF id \in GeneratorIds THEN evaluateGenerator(id, gs)
        ELSE evaluateUpgrade(id, gs, recentClickRate)
      all == [i \in 1..Len(CandidateOrder) |-> decision(CandidateOrder[i])]
  IN  SelectSeq(all, LAMBDA d : RatGT(d.efficiency, Rat(0, 1)))

\* the candidates decideNextPurchase keeps, in collection order
Decisions(gs, recentClickRate) ==
  LET considered(id) ==
        IF id \in GeneratorIds
        THEN gs.idleGenerators[id].unlocked
        ELSE /\ gs.upgrades[id].unlocked
             /\ gs.upgrades[id].currentPurchases < getInitialUpgrades[id].maxPurchases
      decision(id) ==
        IF id \in GeneratorIds THEN evaluateGenerator(id, gs)
        ELSE evaluateUpgrade(id, gs, recentClickRate)
      all == [i \in 1..Len(CandidateOrder) |-> decision(CandidateOrder[i])]
  IN  SelectSeq(all, LAMBDA d : considered(d.id) /\ RatGT(d.efficiency, Rat(0, 1)))

\* the first element of a stable sort by descending efficiency
RECURSIVE BestOf(_)
BestOf(decisions) ==
  IF Len(decisions) = 1 THEN Head(decisions)
  ELSE LET rest == BestOf(Tail(decisions))
       IN  IF RatGE(Head(decisions).efficiency, rest.efficiency)
           THEN Head(decisions) ELSE rest

NoDecision ==
  [type |-> "none", id |-> "", amount |-> 0, cost |-> ZERO, efficiency |-> Rat(0, 1)]

\* a choice that takes the best affordable option however poor it is
chooseDecision_withoutThreshold(bestOption, bestAffordable) ==
  IF bestOption.type # "none" THEN bestOption ELSE bestAffordable

\* the choice between the best option and the best affordable one
chooseDecision(bestOption, bestAffordable) ==
  IF bestOption.type # "none" THEN bestOption
  ELSE IF RatGE(bestAffordable.efficiency, RatMul(bestOption.efficiency, Rat(1, 2)))
       THEN bestAffordable
       ELSE NoDecision

\* decideNextPurchase once the candidates and the affordable ones are known
decideAmong(decisions, affordableDecisions) ==
  IF decisions = <<>> \/ affordableDecisions = <<>> THEN NoDecision
  ELSE chooseDecision(BestOf(decisions), BestOf(affordableDecisions))

\* the affordable candidates
affordableOf(decisions) ==
  SelectSeq(decisions, LAMBDA d : d.type # "none")

\* decideNextPurchase once the candidates are known
decideFrom(decisions) ==
  decideAmong(decisions, affordableOf(decisions))

\* BotStrategy.decideNextPurchase(gameState)
decideNextPurchase(gs, recentClickRate) ==
  decideFrom(Decisions(gs, recentClickRate))

ShouldPrestigeThreshold ==
  50000

\* floor((totalEarned / 50000) ^ 0.6), for totalEarned below 50000 * 2^(5/3)
PotentialGain(totalEarned) ==
  IF totalEarned >= D(ShouldPrestigeThreshold) THEN 1 ELSE 0

\* BotStrategy.shouldPrestige(gameState, currentPrestigeDuration)
shouldPrestige(gs, currentPrestigeDuration) ==
  LET potentialGain == PotentialGain(gs.totalEarned)
  IN  IF potentialGain <= 0 THEN FALSE
      ELSE RatGE(Rat(potentialGain * Scale, gs.prestigePoints + ONE), Rat(1, 4))

\* the clicks shouldClickInPassiveMode spends towards a decision
clicksTowards(gs, clicksAvailable, decision) ==
  LET clickValue == (gs.baseClickValue * gs.clickMultiplier) \div Scale
      clicksNeeded == (decision.cost + clickValue - 1) \div clickValue
  IN  IF decision.type # "none"
      THEN IF clicksAvailable < clicksNeeded THEN clicksAvailable ELSE clicksNeeded
      ELSE 0

\* BotStrategy.shouldClickInPassiveMode(gameState, clicksAvailable)
shouldClickInPassiveMode(gs, clicksAvailable, recentClickRate) ==
  IF \A g \in GeneratorIds : gs.idleGenerators[g].owned = 0 THEN clicksAvailable
  ELSE clicksTowards(gs, clicksAvailable, decideNextPurchase(gs, recentClickRate))

----------------------------------------------------------------------------
(* BotLogger and GameBot.  Times are milliseconds; the click bank is kept   *)
(* in units of 1/36000 click, what one millisecond of game time accrues at  *)
(* 100 clicks per hour.                                                     *)

RealtimeUpdateRate ==
  100

SimulatedUpdateRate ==
  50

BankUnitsPerClick ==
  36000

\* the value of the config field before the first start(): null
NoConfig ==
  [mode |-> "active", speed |-> "realtime", simulationSpeed |-> 0,
   maxPrestiges |-> 0, maxDuration |-> 0, maxSP |-> 0]

\* new BotLogger(): no session, no prestige log
\* (prestiges is the length of the session's prestiges array and logs its
\* entries; prestigeNumber, startingSP and purchases belong to the open log)
newBotLogger ==
  [sessionOpen |-> FALSE, startTime |-> 0, prestiges |-> 0, logs |-> <<>>,
   prestigeOpen |-> FALSE, prestigeNumber |-> 0, startingSP |-> ZERO,
   purchases |-> 0]

\* the value of lastCompletedSession before the first stop(): null
NoSession ==
  [defined |-> FALSE, startTime |-> 0, prestiges |-> 0]

\* new GameBot(); liveIntervals counts the intervals scheduled with
\* setInterval and not cleared, lastControl is the control call that returned
\* last
newGameBot ==
  [status |-> "idle", configured |-> FALSE, config |-> NoConfig,
   updateInterval |-> FALSE, liveIntervals |-> 0,
   lastUpdateTime |-> 0, prestigeStartTime |-> 0,
   passiveClickBank |-> 0,
   currentPrestigeNumber |-> 0,
   manualClicksThisPrestige |-> 0, totalClicksThisPrestige |-> 0,
   clickRateWindow |-> <<>>, recentClickRate |-> Rat(0, 1),
   logger |-> newBotLogger, lastCompletedSession |-> NoSession,
   lastControl |-> "none"]

\* BotLogger.startPrestige(prestigeNumber, startingSP) in an open session
startPrestige(logger, prestigeNumber, startingSP) ==
  [logger EXCEPT !.prestigeOpen = TRUE, !.prestigeNumber = prestigeNumber,
                 !.startingSP = startingSP, !.purchases = 0]

\* BotLogger.startSession followed by BotLogger.startPrestige(0, startingSP)
startSessionAndPrestige(t, startingSP) ==
  startPrestige([sessionOpen |-> TRUE, startTime |-> t, prestiges |-> 0,
                 logs |-> <<>>, prestigeOpen |-> FALSE, prestigeNumber |-> 0,
                 startingSP |-> ZERO, purchases |-> 0],
                0, startingSP)

\* BotLogger.logPurchase
logPurchase(logger) ==
  IF ~logger.prestigeOpen THEN logger ELSE [logger EXCEPT !.purchases = @ + 1]

\* BotLogger.endPrestige(gainedSP, endingSP, totalClicks, manualClicks,
\* finalMultipliers, finalCurrency, finalViews): the open log is completed
\* and pushed on the session's prestiges
endPrestige(logger, statistics) ==
  IF ~logger.prestigeOpen \/ ~logger.sessionOpen THEN logger
  ELSE [logger EXCEPT
          !.prestiges = @ + 1,
          !.logs = Append(@, [prestigeNumber |-> logger.prestigeNumber,
                              startingSP |-> logger.startingSP,
                              purchases |-> logger.purchases,
                              statistics |-> statistics]),
          !.prestigeOpen = FALSE]

\* the arguments GameBot.endPrestigeLog reads from the bot and the game state
cycleStatistics(b, gs) ==
  [gainedSP |-> calculatePrestigeGain(gs),
   endingSP |-> gs.prestigePoints + calculatePrestigeGain(gs),
   totalClicks |-> b.totalClicksThisPrestige,
   manualClicks |-> b.manualClicksThisPrestige,
   clickMultiplier |-> gs.clickMultiplier,
   idleMultiplier |-> gs.idleMultiplier,
   engagement |-> gs.engagement,
   finalCurrency |-> gs.currency]

\* GameBot.endPrestigeLog(): the logger it leaves
endPrestigeLog(b, gs) ==
  endPrestige(b.logger, cycleStatistics(b, gs))

\* the period of the interval the bot schedules
updateRate(config) ==
  IF config.speed = "realtime" THEN RealtimeUpdateRate ELSE SimulatedUpdateRate

\* clearInterval(this.updateInterval) when the handle is set
clearUpdateInterval(b) ==
  IF b.updateInterval
  THEN [b EXCEPT !.updateInterval = FALSE, !.liveIntervals = @ - 1]
  ELSE b

\* the simulation speed start() writes to the game state
startSimulationSpeed(config) ==
  IF config.speed = "simulated" /\ config.simulationSpeed # 0
  THEN config.simulationSpeed ELSE 1

\* start(config) without the early return of a running bot
GameBot_start_restarting(b, gs, config, t) ==
  [bot |-> [b EXCEPT
              !.lastControl = "start",
              !.config = config, !.configured = TRUE,
              !.status = "running",
              !.currentPrestigeNumber = 0,
              !.prestigeStartTime = t,
              !.logger = startSessionAndPrestige(t, gs.prestigePoints),
              !.lastUpdateTime = t,
              !.passiveClickBank = 0,
              !.manualClicksThisPrestige = 0,
              !.totalClicksThisPrestige = 0,
              !.updateInterval = TRUE,
              !.liveIntervals = @ + 1],
   gs |-> [gs EXCEPT !.simulationSpeed = startSimulationSpeed(config)]]

\* GameBot.start(config): the bot and the game state it leaves; a call on a
\* running bot returns at once
GameBot_start(b, gs, config, t) ==
  IF b.status = "running"
  THEN [bot |-> [b EXCEPT !.lastControl = "start ignored"], gs |-> gs]
  ELSE [bot |-> [b EXCEPT
                   !.lastControl = "start",
                   !.config = config, !.configured = TRUE,
                   !.status = "running",
                   !.currentPrestigeNumber = 0,
                   !.prestigeStartTime = t,
                   !.logger = startSessionAndPrestige(t, gs.prestigePoints),
                   !.lastUpdateTime = t,
                   !.passiveClickBank = 0,
                   !.manualClicksThisPrestige = 0,
                   !.totalClicksThisPrestige = 0,
                   !.updateInterval = TRUE,
                   !.liveIntervals = @ + 1],
        gs |-> [gs EXCEPT !.simulationSpeed = startSimulationSpeed(config)]]

\* GameBot.stop()
GameBot_stop(b, gs) ==
  IF b.status # "running" /\ b.status # "paused"
  THEN [bot |-> [b EXCEPT !.lastControl = "stop"], gs |-> gs]
  ELSE LET cleared == clearUpdateInterval([b EXCEPT !.status = "completed",
                                                    !.lastControl = "stop"])
           ended == endPrestigeLog(cleared, gs)
       IN  [bot |-> [cleared EXCEPT
                       !.logger = [ended EXCEPT !.sessionOpen = FALSE],
                       !.lastCompletedSession =
                          [defined |-> TRUE, startTime |-> ended.startTime,
                           prestiges |-> ended.prestiges]],
            gs |-> [gs EXCEPT !.simulationSpeed = 1]]

\* a pause() that returns without pausing
GameBot_pause_returningAtOnce(b) ==
  [b EXCEPT !.lastControl = "pause"]

\* GameBot.pause()
GameBot_pause(b) ==
  IF b.status = "running"
  THEN clearUpdateInterval([b EXCEPT !.status = "paused", !.lastControl = "pause"])
  ELSE [b EXCEPT !.lastControl = "pause"]

\* a resume() that does not look at the status
GameBot_resume_fromAnyStatus(b) ==
  IF b.configured
  THEN [b EXCEPT !.status = "running", !.updateInterval = TRUE,
                 !.liveIntervals = @ + 1, !.lastControl = "resume"]
  ELSE [b EXCEPT !.lastControl = "resume"]

\* GameBot.resume()
GameBot_resume(b) ==
  IF b.status = "paused" /\ b.configured
  THEN [b EXCEPT !.status = "running", !.updateInterval = TRUE,
                 !.liveIntervals = @ + 1, !.lastControl = "resume"]
  ELSE [b EXCEPT !.lastControl = "resume"]

\* a deltaTime without the limit of one second per update
deltaTimeOf_unclamped(b, t) ==
  IF b.config.speed = "simulated" /\ b.config.simulationSpeed # 0
  THEN (t - b.lastUpdateTime) * b.config.simulationSpeed
  ELSE t - b.lastUpdateTime

\* deltaTime of an update, in milliseconds of game time
deltaTimeOf(b, t) ==
  LET elapsed == t - b.lastUpdateTime
      scaled == IF b.config.speed = "simulated" /\ b.config.simulationSpeed # 0
                THEN elapsed * b.config.simulationSpeed ELSE elapsed
  IN  IF scaled > 1000 THEN 1000 ELSE scaled

\* the loop of gameEngine.performClick() calls; none when clicks <= 0
RECURSIVE ClickLoop(_, _)
ClickLoop(gs, clicks) ==
  IF clicks <= 0 THEN gs ELSE ClickLoop(performClick(gs), clicks - 1)

\* the counters the click loops advance
countClicks(b, clicks) ==
  IF clicks <= 0 THEN b
  ELSE [b EXCEPT !.manualClicksThisPrestige = @ + clicks,
                 !.totalClicksThisPrestige = @ + clicks]

\* the rolling window after a push, at most 10 rates long
pushRate(window, clicksPerSecond) ==
  IF Len(window) >= 10 THEN Append(Tail(window), clicksPerSecond)
  ELSE Append(window, clicksPerSecond)

\* the average the strategy is told
withClickRateWindow(b, window) ==
  [b EXCEPT !.clickRateWindow = window,
            !.recentClickRate = RatMul(RatSum(window), Rat(1, Len(window)))]

\* GameBot.updateClickRate(clicksThisUpdate, deltaTime)
updateClickRate(b, clicksThisUpdate, deltaTime) ==
  withClickRateWindow(b, pushRate(b.clickRateWindow,
                                  IF deltaTime > 0
                                  THEN Rat(clicksThisUpdate * 1000, deltaTime)
                                  ELSE Rat(0, 1)))

\* a purchase cap that batches at every speed
maxPurchasesPerUpdate_batching(config) ==
  10

\* the purchase cap of one update
maxPurchasesPerUpdate(config) ==
  LET simulationSpeed == IF config.simulationSpeed # 0
                         THEN config.simulationSpeed ELSE 1
  IN  IF simulationSpeed <= 10 THEN 1 ELSE 10

\* the while loop of GameBot.makePurchases, in three parts: the loop test,
\* the decision, the engine's answer; threw tells that the engine raised,
\* which ends the update there
RECURSIVE makePurchasesLoop(_, _, _)
RECURSIVE purchaseDecided(_, _, _, _)
RECURSIVE purchaseAnswered(_, _, _)
makePurchasesLoop(b, gs, purchasesMade) ==
  IF purchasesMade >= maxPurchasesPerUpdate(b.config)
  THEN [bot |-> b, gs |-> gs, threw |-> FALSE]
  ELSE purchaseDecided(b, gs, purchasesMade,
                       decideNextPurchase(getGameState(gs), b.recentClickRate))

purchaseDecided(b, gs, purchasesMade, decision) ==
  IF decision.type = "none" THEN [bot |-> b, gs |-> gs, threw |-> FALSE]
  ELSE purchaseAnswered(b, purchasesMade,
         IF decision.type = "generator"
         THEN GameEngine_purchaseGenerator(decision.id, gs, decision.amount)
         ELSE GameEngine_purchaseUpgrade(decision.id, gs))

purchaseAnswered(b, purchasesMade, r) ==
  IF r.res = "throw" THEN [bot |-> b, gs |-> r.gs, threw |-> TRUE]
  ELSE IF r.res = "ok"
  THEN makePurchasesLoop([b EXCEPT !.logger = logPurchase(@)], r.gs,
                         purchasesMade + 1)
  ELSE [bot |-> b, gs |-> r.gs, threw |-> FALSE]

\* GameBot.makePurchases(gameState)
makePurchases(b, gs) ==
  makePurchasesLoop(b, gs, 0)

\* the clicks, the click-rate update and the purchases of one update
clickAndPurchase(b, gs, clicks, deltaTime) ==
  makePurchases(updateClickRate(countClicks(b, clicks), clicks, deltaTime),
                ClickLoop(gs, clicks))

\* GameBot.performActiveActions(deltaTime)
performActiveActions(b, gs, deltaTime) ==
  clickAndPurchase(b, gs,
                   IF deltaTime \div 100 < 100 THEN deltaTime \div 100 ELSE 100,
                   deltaTime)

\* the bank after clicksUsed clicks are taken from it
spendBank(b, clicksUsed) ==
  IF clicksUsed > 0
  THEN [b EXCEPT !.passiveClickBank = @ - clicksUsed * BankUnitsPerClick]
  ELSE b

\* performPassiveActions once the number of clicks to use is known
passiveActions(b, gs, clicksToUse, deltaTime) ==
  clickAndPurchase(spendBank(b, clicksToUse), gs,
                   IF clicksToUse > 0 THEN clicksToUse ELSE 0, deltaTime)

\* GameBot.performPassiveActions(deltaTime)
performPassiveActions(b, gs, deltaTime) ==
  passiveActions(b, gs,
                 IF b.passiveClickBank \div BankUnitsPerClick > 0
                 THEN shouldClickInPassiveMode(getGameState(gs),
                                               b.passiveClickBank \div BankUnitsPerClick,
                                               b.recentClickRate)
                 ELSE 0,
                 deltaTime)

\* GameBot.performPrestige() once the log is ended and the engine has reset
prestigeStarted(b, t, ended, reset) ==
  [bot |-> [b EXCEPT
              !.logger = startPrestige(ended, b.currentPrestigeNumber + 1,
                                       reset.prestigePoints),
              !.currentPrestigeNumber = @ + 1,
              !.prestigeStartTime = t,
              !.manualClicksThisPrestige = 0,
              !.totalClicksThisPrestige = 0],
   gs |-> reset]

\* a performPrestige() that ends the cycle's log after the engine reset and
\* the zeroing of the counters
GameBot_performPrestige_loggingLate(b, gs, t) ==
  prestigeStarted(b, t,
                  endPrestigeLog([b EXCEPT !.manualClicksThisPrestige = 0,
                                           !.totalClicksThisPrestige = 0],
                                 performPrestige(gs)),
                  performPrestige(gs))

\* GameBot.performPrestige()
GameBot_performPrestige(b, gs, t) ==
  prestigeStarted(b, t, endPrestigeLog(b, gs), performPrestige(gs))

\* GameBot.checkPrestige()
checkPrestige(b, gs, t) ==
  IF canPrestige(gs) /\ shouldPrestige(getGameState(gs), t - b.prestigeStartTime)
  THEN GameBot_performPrestige(b, gs, t)
  ELSE [bot |-> b, gs |-> gs]

\* GameBot.checkStopConditions()
checkStopConditions(b, gs, t) ==
  IF ~b.configured \/ ~b.logger.sessionOpen THEN [bot |-> b, gs |-> gs]
  ELSE IF \/ b.config.maxPrestiges # 0 /\ b.logger.prestiges >= b.config.maxPrestiges
          \/ b.config.maxDuration # 0 /\ t - b.logger.startTime >= b.config.maxDuration
          \/ b.config.maxSP # 0 /\ gs.prestigePoints >= D(b.config.maxSP)
       THEN GameBot_stop(b, gs)
       ELSE [bot |-> b, gs |-> gs]

\* update() returning normally
returned(checked) ==
  [bot |-> checked.bot, gs |-> checked.gs, threw |-> FALSE]

\* the end of update(): the stop check on what the prestige check left
stopChecked(prestiged, t) ==
  checkStopConditions(prestiged.bot, prestiged.gs, t)

\* the end of update(): the prestige and stop checks, unless the actions raised
checksAfter(acted, t) ==
  IF acted.threw THEN acted
  ELSE returned(stopChecked(checkPrestige(acted.bot, acted.gs, t), t))

\* the actions of update(), from the passive click bank on
actionsOf(b, gs, t, deltaTime) ==
  IF b.config.mode = "active"
  THEN performActiveActions([b EXCEPT !.lastUpdateTime = t], gs, deltaTime)
  ELSE performPassiveActions([b EXCEPT !.lastUpdateTime = t,
                                       !.passiveClickBank = @ + deltaTime],
                             gs, deltaTime)

\* GameBot.update(), the interval callback, run at time t
GameBot_update(b, gs, t) ==
  IF ~b.configured \/ b.status # "running"
  THEN [bot |-> b, gs |-> gs, threw |-> FALSE]
  ELSE checksAfter(actionsOf(b, gs, t, deltaTimeOf(b, t)), t)

----------------------------------------------------------------------------
(* The game: store, managers and engine acting on the one game state        *)

EarnAmounts ==
  {D(800)}

Amounts ==
  {1, 2}

\* the saves a player can import: the export of an earlier session
SavedGames ==
  {serializeGameState(persistedGameState)}

\* the purchase counts stay within the bound of the model
BoughtWithinBound(gs) ==
  \A u \in UpgradeIds : gs.upgrades[u].currentPurchases <= MaxBought

Init ==
  /\ gameState \in {createInitialGameState, persistedGameState}
  /\ result = "ok"
  /\ phase = "play"
  /\ bot = newGameBot
  /\ now = 0

\* store.updateCurrency(amount) with a positive amount
StoreUpdateCurrency(amount) ==
  /\ gameState.totalEarned + amount <= D(MaxEarned)
  /\ gameState' = updateCurrency(gameState, amount)
  /\ result' = "ok"
  /\ phase' = "play"
  /\ UNCHANGED <<bot, now>>

PerformClick ==
  /\ gameState.totalClicks < MaxClicks
  /\ gameState.totalEarned
       + (gameState.baseClickValue * gameState.clickMultiplier) \div Scale
       <= D(MaxEarned)
  /\ gameState' = performClick(gameState)
  /\ result' = "ok"
  /\ phase' = "play"
  /\ UNCHANGED <<bot, now>>

ManagerPurchaseUpgrade(id) ==
  LET r == purchaseUpgrade(id, gameState)
  IN  /\ BoughtWithinBound(r.gs)
      /\ gameState' = r.gs
      /\ result' = r.res
      /\ phase' = "play"
      /\ UNCHANGED <<bot, now>>

ManagerPurchaseMaxUpgrades(id) ==
  LET r == purchaseMaxUpgrades(id, gameState)
  IN  /\ BoughtWithinBound(r.gs)
      /\ gameState' = r.gs
      /\ result' = r.res
      /\ phase' = "play"
      /\ UNCHANGED <<bot, now>>

ManagerPurchaseGenerator(id, amount) ==
  LET r == purchaseGenerator(id, gameState, amount)
  IN  /\ id \in GeneratorIds => gameState.idleGenerators[id].owned + amount <= MaxOwned
      /\ gameState' = r.gs
      /\ result' = r.res
      /\ phase' = "play"
      /\ UNCHANGED <<bot, now>>

EnginePurchaseUpgrade(id) ==
  LET r == GameEngine_purchaseUpgrade(id, gameState)
  IN  /\ BoughtWithinBound(r.gs)
      /\ gameState' = r.gs
      /\ result' = r.res
      /\ phase' = "play"
      /\ UNCHANGED <<bot, now>>

EnginePurchaseGenerator(id, amount) ==
  LET r == GameEngine_purchaseGenerator(id, gameState, amount)
  IN  /\ id \in GeneratorIds => gameState.idleGenerators[id].owned + amount <= MaxOwned
      /\ gameState' = r.gs
      /\ result' = r.res
      /\ phase' = "play"
      /\ UNCHANGED <<bot, now>>

UpdateUpgradeUnlocks ==
  /\ gameState' = updateUpgradeUnlocks(gameState)
  /\ result' = "ok"
  /\ phase' = "play"
  /\ UNCHANGED <<bot, now>>

UpdateGeneratorUnlocks ==
  /\ gameState' = updateGeneratorUnlocks(gameState)
  /\ result' = "ok"
  /\ phase' = "play"
  /\ UNCHANGED <<bot, now>>

\* store.importSave(saveString) of a well-formed save
LoadGame(saveData) ==
  /\ gameState' = loadGame(gameState, saveData)
  /\ result' = "ok"
  /\ phase' = "play"
  /\ UNCHANGED <<bot, now>>

\* engine.performPrestige() while the prestige count is below limit
PerformPrestigeUpTo(limit) ==
  /\ gameState.totalPrestiges < limit
  /\ gameState' = performPrestige(gameState)
  /\ result' = (IF canPrestige(gameState) THEN "ok" ELSE "fail")
  /\ phase' = (IF canPrestige(gameState) THEN "reset" ELSE "play")
  /\ UNCHANGED <<bot, now>>

PerformPrestige ==
  PerformPrestigeUpTo(MaxPrestiges)

\* the managers' reset helpers run as part of a prestige reset
ResetGenerators ==
  /\ phase = "reset"
  /\ gameState' = resetGenerators(gameState)
  /\ result' = "ok"
  /\ phase' = "reset"
  /\ UNCHANGED <<bot, now>>

ResetUpgrades ==
  /\ phase = "reset"
  /\ gameState' = resetUpgrades(gameState)
  /\ result' = "ok"
  /\ phase' = "reset"
  /\ UNCHANGED <<bot, now>>

Next ==
  \/ \E amount \in EarnAmounts : StoreUpdateCurrency(amount)
  \/ PerformClick
  \/ \E id \in UpgradeIds \cup {UnknownId} : ManagerPurchaseUpgrade(id)
  \/ \E id \in UpgradeIds \cup {UnknownId} : ManagerPurchaseMaxUpgrades(id)
  \/ \E id \in GeneratorIds \cup {UnknownId}, amount \in Amounts :
        ManagerPurchaseGenerator(id, amount)
  \/ \E id \in UpgradeIds \cup {UnknownId} : EnginePurchaseUpgrade(id)
  \/ \E id \in GeneratorIds \cup {UnknownId}, amount \in Amounts :
        EnginePurchaseGenerator(id, amount)
  \/ UpdateUpgradeUnlocks
  \/ UpdateGeneratorUnlocks
  \/ \E saveData \in SavedGames : LoadGame(saveData)
  \/ PerformPrestige
  \/ ResetGenerators
  \/ ResetUpgrades

Spec ==
  Init /\ [][Next]_vars

----------------------------------------------------------------------------
(* The bot: its controls, its interval timer and the game loop's unlock     *)
(* passes acting on the one game state                                      *)

\* the configurations a caller passes to start(); simulationSpeed 0 stands
\* for an absent or zero factor (both falsy), a limit of 0 for an absent one
Configs ==
  { [mode |-> "active", speed |-> "realtime", simulationSpeed |-> 0,
     maxPrestiges |-> 0, maxDuration |-> 0, maxSP |-> 0],
    [mode |-> "active", speed |-> "simulated", simulationSpeed |-> 10,
     maxPrestiges |-> 0, maxDuration |-> 200, maxSP |-> 0],
    [mode |-> "active", speed |-> "simulated", simulationSpeed |-> 0,
     maxPrestiges |-> 0, maxDuration |-> 0, maxSP |-> 0],
    [mode |-> "active", speed |-> "simulated", simulationSpeed |-> 0 - 4,
     maxPrestiges |-> 0, maxDuration |-> 0, maxSP |-> 0],
    [mode |-> "passive", speed |-> "simulated", simulationSpeed |-> 20,
     maxPrestiges |-> 0, maxDuration |-> 0, maxSP |-> 0] }

\* a late firing of the interval callback, in milliseconds
LateFiring ==
  5 * SimulatedUpdateRate

InitBot ==
  /\ gameState = createInitialGameState
  /\ result = "ok"
  /\ phase = "play"
  /\ bot = newGameBot
  /\ now = 0

Start(config) ==
  LET r == GameBot_start(bot, gameState, config, now)
  IN  /\ bot' = r.bot
      /\ gameState' = r.gs
      /\ UNCHANGED <<result, phase, now>>

Stop ==
  LET r == GameBot_stop(bot, gameState)
  IN  /\ bot' = r.bot
      /\ gameState' = r.gs
      /\ UNCHANGED <<result, phase, now>>

Pause ==
  /\ bot' = GameBot_pause(bot)
  /\ UNCHANGED <<gameState, result, phase, now>>

Resume ==
  /\ bot' = GameBot_resume(bot)
  /\ UNCHANGED <<gameState, result, phase, now>>

\* a scheduled interval fires after elapsed milliseconds and runs update()
Update(elapsed) ==
  /\ bot.liveIntervals > 0
  /\ now + elapsed <= MaxPeriods * SimulatedUpdateRate
  /\ now' = now + elapsed
  /\ \E r \in {GameBot_update(bot, gameState, now + elapsed)} :
       /\ bot' = r.bot
       /\ gameState' = r.gs
       /\ result' = (IF r.threw THEN "throw" ELSE "ok")
  /\ UNCHANGED phase

\* time passes while no interval is scheduled
TimePasses ==
  /\ bot.liveIntervals = 0
  /\ now + SimulatedUpdateRate <= MaxPeriods * SimulatedUpdateRate
  /\ now' = now + SimulatedUpdateRate
  /\ UNCHANGED <<gameState, result, phase, bot>>

NextBot ==
  \/ \E config \in Configs : Start(config)
  \/ Stop
  \/ Pause
  \/ Resume
  \/ \E elapsed \in {updateRate(bot.config), LateFiring} : Update(elapsed)
  \/ TimePasses
  \/ UpdateUpgradeUnlocks
  \/ UpdateGeneratorUnlocks

SpecBot ==
  InitBot /\ [][NextBot]_vars

----------------------------------------------------------------------------
(* The shop: a player who has earned StartCurrency buys upgrades and        *)
(* generators through the managers and the engine                           *)

\* the game after store.updateCurrency(StartCurrency) on a new or restored game
wealthyGameState(gs) ==
  updateCurrency(gs, D(StartCurrency))

InitShop ==
  /\ gameState \in {wealthyGameState(createInitialGameState),
                    wealthyGameState(persistedGameState)}
  /\ result = "ok"
  /\ phase = "play"
  /\ bot = newGameBot
  /\ now = 0

NextShop ==
  \/ \E id \in UpgradeIds \cup {UnknownId} : ManagerPurchaseUpgrade(id)
  \/ \E id \in UpgradeIds \cup {UnknownId} : ManagerPurchaseMaxUpgrades(id)
  \/ \E id \in GeneratorIds \cup {UnknownId}, amount \in Amounts :
        ManagerPurchaseGenerator(id, amount)
  \/ \E id \in UpgradeIds \cup {UnknownId} : EnginePurchaseUpgrade(id)
  \/ \E id \in GeneratorIds \cup {UnknownId}, amount \in Amounts :
        EnginePurchaseGenerator(id, amount)
  \/ UpdateUpgradeUnlocks
  \/ UpdateGeneratorUnlocks

SpecShop ==
  InitShop /\ [][NextShop]_vars

----------------------------------------------------------------------------
(* The bot started on a game in which a prestige is due                     *)

\* the single-unit purchase called n times in a row
RECURSIVE PurchaseTimes(_, _, _)
PurchaseTimes(u, gs, n) ==
  IF n <= 0 THEN gs ELSE PurchaseTimes(u, purchaseUpgrade(u, gs).gs, n - 1)

\* a game whose player has earned the strategy's prestige threshold
prestigeDueGameState ==
  updateCurrency(persistedGameState, D(ShouldPrestigeThreshold))

\* configurations with stop conditions: a number of prestiges, a duration, an
\* amount of prestige points, and none
StopConfigs ==
  { [mode |-> "active", speed |-> "realtime", simulationSpeed |-> 0,
     maxPrestiges |-> 1, maxDuration |-> 0, maxSP |-> 0],
    [mode |-> "active", speed |-> "simulated", simulationSpeed |-> 10,
     maxPrestiges |-> 0, maxDuration |-> 2 * RealtimeUpdateRate, maxSP |-> 0],
    [mode |-> "active", speed |-> "simulated", simulationSpeed |-> 10,
     maxPrestiges |-> 0, maxDuration |-> 0, maxSP |-> 1],
    [mode |-> "active", speed |-> "simulated", simulationSpeed |-> 10,
     maxPrestiges |-> 0, maxDuration |-> 0, maxSP |-> 0] }

\* a fresh game whose player has earned the prestige threshold and bought
\* eight bots, six script farms and the first upgrade MaxBought times
seasonedGameState ==
  PurchaseTimes("base-value-1",
    purchaseGenerator("script-farm",
      purchaseGenerator("bot",
        updateGeneratorUnlocks(
          updateCurrency(createInitialGameState, D(ShouldPrestigeThreshold))),
        8).gs,
      6).gs,
    MaxBought)

\* the same game after its player bought the first upgrade MaxBought times
upgradedGameState ==
  PurchaseTimes("base-value-1", prestigeDueGameState, MaxBought)

InitDue ==
  /\ gameState \in {prestigeDueGameState, upgradedGameState, seasonedGameState}
  /\ result = "ok"
  /\ phase = "play"
  /\ bot = newGameBot
  /\ now = 0

NextDue ==
  \/ \E config \in StopConfigs : Start(config)
  \/ Stop
  \/ Pause
  \/ Resume
  \/ \E elapsed \in {updateRate(bot.config), LateFiring} : Update(elapsed)
  \/ TimePasses
  \/ UpdateUpgradeUnlocks
  \/ UpdateGeneratorUnlocks

SpecDue ==
  InitDue /\ [][NextDue]_vars

----------------------------------------------------------------------------
(* The late game: a save one prestige short of the meta-prestige            *)

\* a game restored with nine prestiges done and 999 prestige points
lateGameState ==
  [ persistedGameState EXCEPT
      !.totalPrestiges = MetaPrestigeRequirement - 1,
      !.prestigePoints = D(MetaPrestigePointsRequirement) - ONE ]

InitMeta ==
  /\ gameState = lateGameState
  /\ result = "ok"
  /\ phase = "play"
  /\ bot = newGameBot
  /\ now = 0

\* engine.performMetaPrestige()
PerformMetaPrestige ==
  /\ gameState' = performMetaPrestige(gameState)
  /\ result' = (IF canMetaPrestige(gameState) THEN "ok" ELSE "fail")
  /\ phase' = (IF canMetaPrestige(gameState) THEN "reset" ELSE "play")
  /\ UNCHANGED <<bot, now>>

NextMeta ==
  \/ \E amount \in EarnAmounts : StoreUpdateCurrency(amount)
  \/ \E id \in GeneratorIds \cup {UnknownId}, amount \in Amounts :
        ManagerPurchaseGenerator(id, amount)
  \/ UpdateGeneratorUnlocks
  \/ PerformPrestigeUpTo(MetaPrestigeRequirement + MaxPrestiges)
  \/ PerformMetaPrestige
  \/ \E saveData \in SavedGames : LoadGame(saveData)

SpecMeta ==
  InitMeta /\ [][NextMeta]_vars

----------------------------------------------------------------------------
(* Temporary effects: activation, expiry, save and reload                   *)
(* The engine pass that expires temporary effects is not part of the        *)
(* sources at hand; it is modelled from the specification: an effect whose  *)
(* duration has elapsed is reversed by its remove function and taken out of *)
(* the list.                                                                *)

RECURSIVE ExpireLoop(_, _, _, _)
ExpireLoop(effects, kept, multiplier, t) ==
  IF effects = <<>> THEN [kept |-> kept, multiplier |-> multiplier]
  ELSE IF t >= Head(effects).startTime + Head(effects).duration
       THEN ExpireLoop(Tail(effects), kept,
                       IF Head(effects).live
                       THEN multiplier \div Head(effects).value
                       ELSE multiplier,
                       t)
       ELSE ExpireLoop(Tail(effects), Append(kept, Head(effects)), multiplier, t)

expiredEffectsRemoved(gs, r) ==
  [gs EXCEPT !.temporaryEffects = r.kept, !.clickMultiplier = r.multiplier]

updateTemporaryEffects(gs, t) ==
  expiredEffectsRemoved(gs, ExpireLoop(gs.temporaryEffects, <<>>, gs.clickMultiplier, t))

InitEffects ==
  /\ gameState = wealthyGameState(persistedGameState)
  /\ result = "ok"
  /\ phase = "play"
  /\ bot = newGameBot
  /\ now = 0

\* the engine's pass over the temporary effects at the current time
UpdateTemporaryEffects ==
  /\ gameState' = updateTemporaryEffects(gameState, now)
  /\ result' = "ok"
  /\ phase' = "play"
  /\ UNCHANGED <<bot, now>>

\* half the duration of a Viral Moment passes
EffectTimePasses ==
  /\ now + ViralMomentDuration \div 2 <= MaxPeriods * (ViralMomentDuration \div 2)
  /\ now' = now + ViralMomentDuration \div 2
  /\ UNCHANGED <<gameState, result, phase, bot>>

\* the game is saved, closed and opened again
SaveAndReload ==
  /\ gameState' = loadGame(gameState, serializeGameState(gameState))
  /\ result' = "ok"
  /\ phase' = "play"
  /\ UNCHANGED <<bot, now>>

NextEffects ==
  \/ \E id \in UpgradeIds : ManagerPurchaseUpgrade(id)
  \/ UpdateUpgradeUnlocks
  \/ UpdateTemporaryEffects
  \/ EffectTimePasses
  \/ SaveAndReload

SpecEffects ==
  InitEffects /\ [][NextEffects]_vars

----------------------------------------------------------------------------
(* Generator purchases with any amount a caller may pass                    *)

\* the amount argument is an unvalidated number
AnyAmounts ==
  {0 - 1, 0, 1, 2}

\* the owned counts and the currency spent stay within the bounds of the model
OwnedWithinBound(id, amount) ==
  /\ gameState.totalEarned - gameState.currency <= D(MaxSpent)
  /\ id \in GeneratorIds
       => /\ gameState.idleGenerators[id].owned + amount <= MaxOwned
          /\ gameState.idleGenerators[id].owned + amount >= 0 - MaxOwned

\* idleManager.purchaseGenerator(id, gameState, amount), any amount
ManagerPurchaseAnyAmount(id, amount) ==
  /\ OwnedWithinBound(id, amount)
  /\ ManagerPurchaseGenerator(id, amount)

\* engine.purchaseGenerator(id, amount), any amount
EnginePurchaseAnyAmount(id, amount) ==
  /\ OwnedWithinBound(id, amount)
  /\ EnginePurchaseGenerator(id, amount)

NextGenerators ==
  \/ \E id \in GeneratorIds \cup {UnknownId}, amount \in AnyAmounts :
        ManagerPurchaseAnyAmount(id, amount)
  \/ \E id \in GeneratorIds \cup {UnknownId}, amount \in AnyAmounts :
        EnginePurchaseAnyAmount(id, amount)
  \/ UpdateGeneratorUnlocks
  \/ PerformPrestige

SpecGenerators ==
  InitShop /\ [][NextGenerators]_vars

----------------------------------------------------------------------------
(* Purchases: atomicity, refusal, bookkeeping                               *)

UpgradeInputs ==
  UpgradeIds \cup {UnknownId}

GeneratorInputs ==
  GeneratorIds \cup {UnknownId}

\* a step that is one call of a purchase operation
PurchaseAttempt ==
  \/ \E id \in UpgradeInputs : ManagerPurchaseUpgrade(id)
  \/ \E id \in UpgradeInputs : ManagerPurchaseMaxUpgrades(id)
  \/ \E id \in UpgradeInputs : EnginePurchaseUpgrade(id)
  \/ \E id \in GeneratorInputs, amount \in Amounts : ManagerPurchaseGenerator(id, amount)
  \/ \E id \in GeneratorInputs, amount \in Amounts : EnginePurchaseGenerator(id, amount)

\* C1: every purchase attempt is all-or-nothing: an attempt that does not
\* complete successfully (its effect.apply raising part-way included) leaves
\* currency, the purchase counts and every effect-modified field, hence the
\* whole game state, exactly as before the attempt.
C1_AllOrNothing ==
  [][(PurchaseAttempt /\ result' # "ok") => gameState' = gameState]_vars

\* the reasons for which a generator purchase is to be refused
GeneratorRefused(id, amount, gs) ==
  \/ id \notin GeneratorIds
  \/ ~gs.idleGenerators[id].unlocked
  \/ gs.currency < getGeneratorCost(id, gs, amount)

\* the reasons for which UpgradeManager is to refuse an upgrade purchase
UpgradeRefused(id, gs) ==
  \/ id \notin UpgradeIds
  \/ ~isUpgradeUnlocked(id, gs)
  \/ gs.upgrades[id].currentPurchases >= getInitialUpgrades[id].maxPurchases
  \/ gs.currency < getUpgradeCost(id, gs)

\* the reasons for which GameEngine is to refuse an upgrade purchase
EngineUpgradeRefused(id, gs) ==
  \/ id \notin UpgradeIds
  \/ ~gs.upgrades[id].unlocked
  \/ gs.upgrades[id].currentPurchases >= getInitialUpgrades[id].maxPurchases
  \/ gs.currency < GameEngine_getUpgradeCost(id, gs)

\* C2: a generator or upgrade purchase attempt with an unknown id, a locked
\* entity, an already maxed upgrade or insufficient currency signals failure
\* and leaves every field of the game state unchanged.
C2_RefusedPurchaseUnchanged ==
  [][ \/ result' = "fail" /\ gameState' = gameState
      \/ /\ \A id \in GeneratorInputs, amount \in Amounts :
              GeneratorRefused(id, amount, gameState)
              => ~(ManagerPurchaseGenerator(id, amount) \/ EnginePurchaseGenerator(id, amount))
         /\ \A id \in UpgradeInputs :
              UpgradeRefused(id, gameState) => ~ManagerPurchaseUpgrade(id)
         /\ \A id \in UpgradeInputs :
              EngineUpgradeRefused(id, gameState) => ~EnginePurchaseUpgrade(id) ]_vars

\* a state in which a maxed upgrade, a locked generator and an unaffordable
\* upgrade have just been refused or are there to be refused
C2_Witness ==
  /\ result = "fail"
  /\ gameState.upgrades["click-power-3"].currentPurchases
       = getInitialUpgrades["click-power-3"].maxPurchases
  /\ ~gameState.idleGenerators["script-farm"].unlocked
  /\ gameState.currency < getUpgradeCost("base-value-1", gameState)

\* the effect of upgrade id, applied once to gs, is what gs2 holds
EffectPresent(id, gs, gs2) ==
  IF id = "base-value-1"
  THEN /\ gs2.baseClickValue = gs.baseClickValue + D(1)
       /\ gs2.idleMultiplier = [n |-> gs.idleMultiplier.n * 11, d |-> gs.idleMultiplier.d * 10]
  ELSE /\ gs2.clickMultiplier = gs.clickMultiplier * 5
       /\ Len(gs2.temporaryEffects) = Len(gs.temporaryEffects) + 1

\* gs2 is gs after buying `amount` of generator id at the quoted cost
GeneratorBought(id, amount, cost, gs, gs2) ==
  /\ gs2.currency = gs.currency - cost
  /\ gs2.idleGenerators[id].owned = gs.idleGenerators[id].owned + amount

\* gs2 is gs after buying upgrade id once at the quoted cost
UpgradeBought(id, cost, gs, gs2) ==
  /\ gs2.currency = gs.currency - cost
  /\ gs2.upgrades[id].currentPurchases = gs.upgrades[id].currentPurchases + 1
  /\ EffectPresent(id, gs, gs2)

\* C3: a successful purchase deducts from currency exactly the cost quoted
\* immediately before it, increases owned/currentPurchases by exactly the
\* purchased amount, and for an upgrade applies its effect exactly once, the
\* effect being present in the game state read back afterwards.
C3_SuccessfulPurchase ==
  [][ \/ result' # "ok"
      \/ /\ \A id \in GeneratorIds, amount \in Amounts :
              /\ ManagerPurchaseGenerator(id, amount)
                 => GeneratorBought(id, amount, getGeneratorCost(id, gameState, amount),
                                    gameState, getGameState(gameState'))
              /\ EnginePurchaseGenerator(id, amount)
                 => GeneratorBought(id, amount,
                                    GameEngine_getGeneratorCost(id, gameState, amount),
                                    gameState, getGameState(gameState'))
         /\ \A id \in UpgradeIds :
              /\ ManagerPurchaseUpgrade(id)
                 => UpgradeBought(id, getUpgradeCost(id, gameState),
                                  gameState, getGameState(gameState'))
              /\ EnginePurchaseUpgrade(id)
                 => UpgradeBought(id, GameEngine_getUpgradeCost(id, gameState),
                                  gameState, getGameState(gameState')) ]_vars

----------------------------------------------------------------------------
(* Unlock flags, lifetime earnings, prestige                                *)

\* no unlocked flag that is true becomes false in this step
UnlockedKept ==
  /\ \A g \in GeneratorIds :
       gameState.idleGenerators[g].unlocked => gameState'.idleGenerators[g].unlocked
  /\ \A u \in UpgradeIds :
       gameState.upgrades[u].unlocked => gameState'.upgrades[u].unlocked

C9_PrestigeResetSelectivity ==
  [][ (PerformPrestige /\ canPrestige(gameState))
      => /\ gameState'.currency = ZERO
         /\ gameState'.totalEarned = ZERO
         /\ \A g \in GeneratorIds : gameState'.idleGenerators[g].owned = 0
         /\ \A u \in UpgradeIds : gameState'.upgrades[u].currentPurchases = 0
         /\ gameState'.prestigePoints
              = gameState.prestigePoints + calculatePrestigeGain(gameState)
         /\ gameState'.totalPrestiges = gameState.totalPrestiges + 1
         /\ gameState'.engagement = gameState.engagement
         /\ gameState'.unlockedAchievements = gameState.unlockedAchievements
         /\ gameState'.metaPrestigePoints = gameState.metaPrestigePoints
         /\ gameState'.totalMetaPrestiges = gameState.totalMetaPrestiges ]_vars

\* a prestige has just succeeded on a game with achievements, meta-prestige
\* points and a raised engagement
C9_Witness ==
  /\ phase = "reset"
  /\ result = "ok"
  /\ gameState.totalPrestiges = 1
  /\ gameState.prestigePoints = D(1)
  /\ gameState.engagement > ONE
  /\ gameState.unlockedAchievements # {}
  /\ gameState.totalMetaPrestiges = 1

\* C10: in every reachable state currency is non-negative: no single-unit,
\* multi-unit or buy-max purchase leaves currency below zero.
C10_CurrencyNonNegative ==
  gameState.currency >= ZERO

\* purchases have spent the currency down to exactly zero
C10_Witness ==
  /\ gameState.currency = ZERO
  /\ gameState.totalEarned > ZERO
  /\ result = "ok"

----------------------------------------------------------------------------
(* Bot control: status transitions, configuration, cancellation             *)

\* a step that runs stop(): the call itself, or a tick whose stop check fires
StopStep ==
  Stop \/ \E elapsed \in {updateRate(bot.config), LateFiring} : Update(elapsed)

\* the edges other than start's
ControlEdges ==
  \/ Pause /\ bot.status = "running" /\ bot'.status = "paused"
  \/ Resume /\ bot.status = "paused" /\ bot'.status = "running"
  \/ StopStep /\ bot.status \in {"running", "paused"} /\ bot'.status = "completed"

\* C4: the bot's status changes only along these transitions: start(config)
\* takes idle to running, pause() running to paused, resume() paused to
\* running, stop() running or paused to completed; no call changes the status
\* along any other edge, so start() while paused or completed changes nothing.
C4_StatusTransitions ==
  [][ \/ bot'.status = bot.status
      \/ /\ \E config \in Configs : Start(config)
         /\ bot.status = "idle" /\ bot'.status = "running"
      \/ ControlEdges ]_vars

\* C4 as the code has it: start(config) takes every status but running to
\* running (idle, paused and completed alike); the other edges are as stated.
C4_StartFromAnyStatusButRunning ==
  [][ \/ bot'.status = bot.status
      \/ /\ \E config \in Configs : Start(config)
         /\ bot.status # "running" /\ bot'.status = "running"
      \/ ControlEdges ]_vars

\* a bot started again after a stop, with the earlier session completed
C4_Witness ==
  /\ bot.status = "running"
  /\ bot.lastControl = "start"
  /\ bot.lastCompletedSession.defined
  /\ bot.logger.sessionOpen

\* C5: start(config) with a zero or negative simulationSpeed is rejected at
\* start time: the status does not become running, no session is opened and
\* no tick is scheduled.
C5_NonPositiveSpeedRejected ==
  [][ \A config \in Configs :
        (config.speed = "simulated" /\ config.simulationSpeed <= 0 /\ Start(config))
        => /\ bot'.status = bot.status
           /\ bot'.logger = bot.logger
           /\ bot'.liveIntervals = bot.liveIntervals ]_vars

\* what clicks, purchases and prestiges change in the game state
BotActivity(gs) ==
  <<gs.currency, gs.totalEarned, gs.totalClicks,
    [g \in GeneratorIds |-> gs.idleGenerators[g].owned],
    [u \in UpgradeIds |-> gs.upgrades[u].currentPurchases],
    gs.totalPrestiges, gs.prestigePoints>>

\* C6: after pause() or stop() has returned, and until resume() or start() is
\* called, no step (a timer firing included) performs a click, a purchase or
\* a prestige on the game state, and no interval is left scheduled.
C6_NoActivityAfterPauseOrStop ==
  [][ (bot.lastControl \in {"pause", "stop"} /\ bot'.lastControl = bot.lastControl)
      => /\ BotActivity(gameState') = BotActivity(gameState)
         /\ bot'.liveIntervals = 0 ]_vars

\* a bot paused after its ticks clicked and bought, with time gone by since
C6_Witness ==
  /\ bot.lastControl = "pause"
  /\ bot.status = "paused"
  /\ gameState.totalClicks > 0
  /\ gameState.idleGenerators["bot"].owned > 0
  /\ now > bot.lastUpdateTime

----------------------------------------------------------------------------
(* Purchase limits and buy-max                                              *)

\* the click rates the strategy may have observed
ClickRates ==
  {Rat(0, 1), Rat(5, 2), Rat(10, 1)}

\* the answer of a purchase operation that refuses and changes nothing
Refusal(gs) ==
  [gs |-> gs, res |-> "fail", n |-> 0]

\* C11: in every reachable state each upgrade has currentPurchases <=
\* maxPurchases, and an upgrade at its maximum is refused by every purchase
\* operation (which leaves the state as it is) and is never the bot's choice.
C11_PurchasesWithinMax ==
  \A u \in UpgradeIds :
    /\ gameState.upgrades[u].currentPurchases <= getInitialUpgrades[u].maxPurchases
    /\ gameState.upgrades[u].currentPurchases = getInitialUpgrades[u].maxPurchases
       => /\ purchaseUpgrade(u, gameState) = Refusal(gameState)
          /\ purchaseMaxUpgrades(u, gameState) = Refusal(gameState)
          /\ GameEngine_purchaseUpgrade(u, gameState) = Refusal(gameState)
          /\ \A rate \in ClickRates :
               LET decision == decideNextPurchase(getGameState(gameState), rate)
               IN  ~(decision.type = "upgrade" /\ decision.id = u)

\* Viral Moment bought to its maximum by a player who could pay for a third
C11_Witness ==
  /\ gameState.upgrades["click-power-3"].currentPurchases
       = getInitialUpgrades["click-power-3"].maxPurchases
  /\ gameState.upgrades["click-power-3"].unlocked
  /\ gameState.currency >= calculateUpgradeCost("click-power-3", gameState)

\* C12: buying the maximum affordable number N of an upgrade in one buy-max
\* call leaves the same purchase count and the same currency (hence the same
\* total cost charged) as N single-unit purchases in a row.
C12_BuyMaxEqualsSingles ==
  \A u \in UpgradeIds :
    LET N == getMaxAffordableUpgrades(u, gameState)
        atOnce == purchaseMaxUpgrades(u, gameState).gs
        oneByOne == PurchaseTimes(u, gameState, N)
    IN  /\ atOnce.upgrades[u].currentPurchases = oneByOne.upgrades[u].currentPurchases
        /\ atOnce.currency = oneByOne.currency
        /\ gameState.currency - atOnce.currency = gameState.currency - oneByOne.currency

----------------------------------------------------------------------------
(* The prestige count                                                       *)

\* C13 as stated: totalPrestiges never decreases under any operation of the
\* engine (a load of a save set apart) and increases by exactly one on each
\* successful performPrestige().
C13_PrestigeCountNeverDecreases ==
  [][ /\ \/ gameState'.totalPrestiges >= gameState.totalPrestiges
         \/ \E saveData \in SavedGames : LoadGame(saveData)
      /\ PerformPrestigeUpTo(MetaPrestigeRequirement + MaxPrestiges)
           /\ canPrestige(gameState)
         => gameState'.totalPrestiges = gameState.totalPrestiges + 1 ]_vars

\* C13 as amended: totalPrestiges increases by exactly one on each successful
\* performPrestige(); it decreases only in a successful meta-prestige, which
\* sets it to zero, or in a load, which installs the saved value; every other
\* operation leaves it unchanged.
C13_PrestigeCountResetOnlyByMetaPrestige ==
  [][ /\ PerformPrestigeUpTo(MetaPrestigeRequirement + MaxPrestiges)
           /\ canPrestige(gameState)
         => gameState'.totalPrestiges = gameState.totalPrestiges + 1
      /\ \/ gameState'.totalPrestiges = gameState.totalPrestiges
         \/ PerformPrestigeUpTo(MetaPrestigeRequirement + MaxPrestiges)
              /\ canPrestige(gameState)
         \/ PerformMetaPrestige /\ canMetaPrestige(gameState)
              /\ gameState'.totalPrestiges = 0
         \/ \E saveData \in SavedGames : LoadGame(saveData) ]_vars

\* the tenth prestige was counted and a meta-prestige then reset the count
C13_Witness ==
  /\ gameState.totalMetaPrestiges = lateGameState.totalMetaPrestiges + 1
  /\ gameState.totalPrestiges = 1
  /\ gameState.prestigePoints > ZERO

----------------------------------------------------------------------------
(* The owned counts                                                         *)

\* C14: for every generator, owned is a non-negative integer that never
\* decreases except when a prestige reset sets it to 0, whatever id and
\* amount purchaseGenerator is called with.
C14_OwnedNeverDecreases ==
  [][ \A g \in GeneratorIds :
        /\ gameState'.idleGenerators[g].owned >= 0
        /\ \/ gameState'.idleGenerators[g].owned >= gameState.idleGenerators[g].owned
           \/ PerformPrestige /\ canPrestige(gameState)
                /\ gameState'.idleGenerators[g].owned = 0 ]_vars

----------------------------------------------------------------------------
(* Temporary effects                                                        *)

\* C15: every temporary effect's multiplier is applied exactly once when the
\* effect is activated and reversed exactly once when it expires: the click
\* multiplier is always the product of the values of the effects in the list,
\* never with a factor applied twice or left behind after expiry, also when
\* the game is saved and reloaded while an effect is active.
C15_EffectsAppliedAndReversedOnce ==
  gameState.clickMultiplier = ONE * Pow(5, Len(gameState.temporaryEffects))

----------------------------------------------------------------------------
(* The bot's prestiges                                                      *)

\* the README's minimum age of a prestige cycle, in seconds
MinimumPrestigeSeconds ==
  30

\* the step is an update() of the bot in which the engine prestiges
BotPrestiges ==
  /\ gameState'.totalPrestiges = gameState.totalPrestiges + 1
  /\ bot'.currentPrestigeNumber = bot.currentPrestigeNumber + 1

\* C16: the bot never performs a prestige earlier than 30 seconds after the
\* start of the current prestige cycle.
C16_NoPrestigeBeforeMinimum ==
  [][ BotPrestiges => now' - bot.prestigeStartTime >= MinimumPrestigeSeconds * 1000 ]_vars

\* the step is a firing of the bot's interval, which runs update()
Tick ==
  \E elapsed \in {updateRate(bot.config), LateFiring} : Update(elapsed)

\* a configured stop condition holds: the cycles completed in the session,
\* the time since the session started, the prestige points
StopConditionHolds(b, gs, t) ==
  \/ b.config.maxPrestiges # 0 /\ b.currentPrestigeNumber >= b.config.maxPrestiges
  \/ b.config.maxDuration # 0 /\ t - b.logger.startTime >= b.config.maxDuration
  \/ b.config.maxSP # 0 /\ gs.prestigePoints >= D(b.config.maxSP)

\* C17: at the end of any tick of the running bot in which a configured stop
\* condition holds, the status is completed; no tick of a completed bot acts on
\* the game; with maxPrestiges = N the bot performs no more than N prestiges.
C17_StopConditionsComplete ==
  [][ /\ (Tick /\ bot.status = "running"
            /\ StopConditionHolds(bot', gameState', now'))
         => bot'.status = "completed"
      /\ (Tick /\ bot.status = "completed")
         => BotActivity(gameState') = BotActivity(gameState)
      /\ (bot'.configured /\ bot'.config.maxPrestiges # 0)
         => bot'.currentPrestigeNumber <= bot'.config.maxPrestiges ]_vars

\* the log of the cycle that ended holds what the bot and the game were when
\* the tick's actions were done (acted), before the engine reset; the counters
\* are zero afterwards and the log that is open, or was opened and closed by
\* the stop check of the same tick, has the next number and starts from the
\* prestige points after the reset
CycleLogged(acted, log) ==
  /\ log.prestigeNumber = bot.currentPrestigeNumber
  /\ log.purchases = acted.bot.logger.purchases
  /\ log.statistics.totalClicks = acted.bot.totalClicksThisPrestige
  /\ log.statistics.manualClicks = acted.bot.manualClicksThisPrestige
  /\ log.statistics.clickMultiplier = acted.gs.clickMultiplier
  /\ log.statistics.idleMultiplier = acted.gs.idleMultiplier
  /\ log.statistics.finalCurrency = acted.gs.currency
  /\ log.statistics.gainedSP = gameState'.prestigePoints - acted.gs.prestigePoints
  /\ log.statistics.endingSP = gameState'.prestigePoints
  /\ bot'.totalClicksThisPrestige = 0
  /\ bot'.manualClicksThisPrestige = 0
  /\ bot'.logger.prestigeNumber = bot.currentPrestigeNumber + 1
  /\ bot'.logger.startingSP = gameState'.prestigePoints
  /\ bot'.logger.purchases = 0
  /\ bot'.logger.prestigeOpen \/ bot'.status = "completed"

\* C18: when the bot performs a prestige, the statistics of the cycle that is
\* ending (click counts, multipliers, purchases, SP gained) are recorded in
\* the session log before the engine reset and before the per-cycle counters
\* are zeroed, and the next cycle's log is opened only after the reset, with
\* the cycle number increased by one.
C18_CycleLoggedBeforeReset ==
  [][ BotPrestiges
      => CycleLogged(actionsOf(bot, gameState, now', deltaTimeOf(bot, now')),
                     bot'.logger.logs[Len(bot.logger.logs) + 1]) ]_vars

\* the bot has prestiged once: the first cycle's log holds its clicks, its
\* purchase and a gain above the minimum, and the second cycle's log is open
C18_Witness ==
  /\ bot.status = "running"
  /\ gameState.totalPrestiges = 1
  /\ bot.logger.prestigeOpen
  /\ bot.logger.prestigeNumber = 1
  /\ Len(bot.logger.logs) = 1
  /\ bot.logger.logs[1].purchases > 0
  /\ bot.logger.logs[1].statistics.totalClicks > 0
  /\ bot.logger.logs[1].statistics.gainedSP > ONE
  /\ bot.logger.logs[1].statistics.idleMultiplier # gameState.idleMultiplier

----------------------------------------------------------------------------
(* The strategy's choices                                                   *)

\* the evaluation of one purchasable entity
Evaluation(id, gs, rate) ==
  IF id \in GeneratorIds THEN evaluateGenerator(id, gs)
  ELSE evaluateUpgrade(id, gs, rate)

\* the options of the claim: unlocked, not at their maximum, of positive
\* efficiency; and those of them the currency pays for
Options(gs, rate) ==
  {id \in GeneratorIds \cup UpgradeIds :
     /\ IF id \in GeneratorIds THEN gs.idleGenerators[id].unlocked
        ELSE /\ gs.upgrades[id].unlocked
             /\ gs.upgrades[id].currentPurchases < getInitialUpgrades[id].maxPurchases
     /\ RatGT(Evaluation(id, gs, rate).efficiency, Rat(0, 1))}

AffordableOptions(gs, rate) ==
  {id \in Options(gs, rate) : gs.currency >= Evaluation(id, gs, rate).cost}

\* id has the highest efficiency among ids
Best(id, ids, gs, rate) ==
  /\ id \in ids
  /\ \A other \in ids :
       RatGE(Evaluation(id, gs, rate).efficiency, Evaluation(other, gs, rate).efficiency)

\* the best affordable option is at least half as efficient as the best option
GoodEnough(gs, rate) ==
  \E a \in AffordableOptions(gs, rate), b \in Options(gs, rate) :
    /\ Best(a, AffordableOptions(gs, rate), gs, rate)
    /\ Best(b, Options(gs, rate), gs, rate)
    /\ RatGE(RatMul(Evaluation(a, gs, rate).efficiency, Rat(2, 1)),
             Evaluation(b, gs, rate).efficiency)

\* the decision is the purchase of a best affordable option
ChoosesBestAffordable(decision, gs, rate) ==
  /\ decision.type = (IF decision.id \in GeneratorIds THEN "generator" ELSE "upgrade")
  /\ Best(decision.id, AffordableOptions(gs, rate), gs, rate)
  /\ decision.cost = Evaluation(decision.id, gs, rate).cost
  /\ decision.efficiency = Evaluation(decision.id, gs, rate).efficiency

DecidesAsClaimed(decision, gs, rate) ==
  IF GoodEnough(gs, rate) THEN ChoosesBestAffordable(decision, gs, rate)
  ELSE decision.type = "none"

\* C19: decideNextPurchase considers every unlocked, non-maxed option with
\* positive efficiency whether or not it is affordable; it returns the
\* highest-efficiency option if that option is affordable; otherwise the
\* highest-efficiency affordable option if its efficiency is at least 50% of
\* the best option's; otherwise 'none'.
C19_DecideNextPurchase ==
  \A rate \in ClickRates :
    DecidesAsClaimed(decideNextPurchase(getGameState(gameState), rate),
                     getGameState(gameState), rate)

\* the three cases at one state or another: here the best option is too dear
\* and the strategy saves for it although it could buy something
C19_Witness ==
  \E rate \in ClickRates :
    /\ AffordableOptions(getGameState(gameState), rate) # {}
    /\ ~GoodEnough(getGameState(gameState), rate)
    /\ decideNextPurchase(getGameState(gameState), rate).type = "none"

----------------------------------------------------------------------------
(* The clicks of the passive mode                                           *)

\* the fewest clicks that bring the currency up to a cost
ClicksNeeded(gs, cost) ==
  IF gs.currency >= cost THEN 0
  ELSE CeilDiv(cost - gs.currency, (gs.baseClickValue * gs.clickMultiplier) \div Scale)
         \div Scale

\* what the claim has the passive mode spend
ClicksAsClaimed(gs, availableClicks, decision) ==
  IF \A g \in GeneratorIds : gs.idleGenerators[g].owned = 0 THEN availableClicks
  ELSE IF decision.type = "none" THEN 0
  ELSE IF ClicksNeeded(gs, decision.cost) < availableClicks
       THEN ClicksNeeded(gs, decision.cost)
       ELSE availableClicks

\* C20: shouldClickInPassiveMode(state, availableClicks) returns
\* availableClicks while no generator is owned; otherwise the minimum number
\* of clicks needed to reach the purchase decideNextPurchase chose, never more
\* than availableClicks; otherwise (no purchase chosen) zero.
C20_PassiveModeClicks ==
  \A rate \in ClickRates, availableClicks \in 0 .. MaxAvailableClicks :
    shouldClickInPassiveMode(getGameState(gameState), availableClicks, rate)
      = ClicksAsClaimed(getGameState(gameState), availableClicks,
                        decideNextPurchase(getGameState(gameState), rate))

----------------------------------------------------------------------------
(* The prestige decision over a long run: the currency comes in windfalls,  *)
(* the player prestiges by hand or lets the bot's check decide.             *)

Earn ==
  /\ gameState.totalEarned + D(Windfall) <= D(MaxLateEarned)
  /\ gameState' = updateCurrency(gameState, D(Windfall))
  /\ result' = "ok"
  /\ phase' = "play"
  /\ UNCHANGED <<bot, now>>

\* GameBot.checkPrestige()
CheckPrestige ==
  /\ gameState.totalPrestiges <= MaxPrestiges
  /\ gameState' = checkPrestige(bot, gameState, now).gs
  /\ bot' = checkPrestige(bot, gameState, now).bot
  /\ result' = "ok"
  /\ phase' = "play"
  /\ UNCHANGED now

NextDecision ==
  \/ Earn
  \/ PerformPrestigeUpTo(MaxPrestiges + 1)
  \/ CheckPrestige

SpecDecision ==
  Init /\ [][NextDecision]_vars

----------------------------------------------------------------------------
(* C21 *)

\* the decision the claim describes: a gain of at least 1 that is at least a
\* quarter of the strategy points held
WorthPrestiging(gs) ==
  /\ PotentialGain(gs.totalEarned) >= 1
  /\ 4 * D(PotentialGain(gs.totalEarned)) >= gs.prestigePoints

\* C21: shouldPrestige returns true exactly when the potential prestige gain
\* is at least 1 and is at least 25% of the current prestige-currency balance.
C21_ShouldPrestigeAtQuarterOfBalance ==
  shouldPrestige(getGameState(gameState), now - bot.prestigeStartTime)
    <=> WorthPrestiging(getGameState(gameState))

----------------------------------------------------------------------------
(* C22 *)

\* the threshold the prestige button displays as the production value
ProductionPrestigeThreshold ==
  50000

\* C22: canPrestige() is true exactly when totalEarned is at least the
\* production threshold of 50000, and false otherwise.
C22_CanPrestigeAtProductionThreshold ==
  canPrestige(gameState) <=> gameState.totalEarned >= D(ProductionPrestigeThreshold)

----------------------------------------------------------------------------
(* C23 *)

\* baseCost and costMultiplier of every generator of the catalogs
CatalogGeneratorCosts ==
  { [baseCost |-> 100, cmN |-> 11, cmD |-> 10], [baseCost |-> 1000, cmN |-> 11, cmD |-> 10],
    [baseCost |-> 50000, cmN |-> 23, cmD |-> 20],
    [baseCost |-> 10, cmN |-> 11, cmD |-> 10], [baseCost |-> 50, cmN |-> 11, cmD |-> 10],
    [baseCost |-> 200, cmN |-> 11, cmD |-> 10], [baseCost |-> 5000, cmN |-> 11, cmD |-> 10],
    [baseCost |-> 25000, cmN |-> 11, cmD |-> 10] }

\* baseCost and costMultiplier of every upgrade of the catalogs
CatalogUpgradeCosts ==
  { [baseCost |-> 200, cmN |-> 3, cmD |-> 2], [baseCost |-> 800, cmN |-> 2, cmD |-> 1],
    [baseCost |-> 1200, cmN |-> 2, cmD |-> 1],
    [baseCost |-> 5, cmN |-> 3, cmD |-> 2], [baseCost |-> 25, cmN |-> 9, cmD |-> 5],
    [baseCost |-> 100, cmN |-> 2, cmD |-> 1], [baseCost |-> 10, cmN |-> 3, cmD |-> 2],
    [baseCost |-> 50, cmN |-> 9, cmD |-> 5], [baseCost |-> 100, cmN |-> 1, cmD |-> 1],
    [baseCost |-> 200, cmN |-> 2, cmD |-> 1], [baseCost |-> 500, cmN |-> 5, cmD |-> 2] }

\* the store after one more unit of a generator, of an upgrade
WithOneMoreGenerator(gs, g) ==
  [gs EXCEPT !.idleGenerators[g].owned = @ + 1]

WithOneMoreUpgrade(gs, u) ==
  [gs EXCEPT !.upgrades[u].currentPurchases = @ + 1]

\* the counts the store holds
CountsHeld(gs) ==
  {gs.idleGenerators[g].owned : g \in GeneratorIds}
    \cup {gs.upgrades[u].currentPurchases : u \in UpgradeIds}

----------------------------------------------------------------------------
(* C24 *)

\* the numerator, over costMultiplier's denominator to the power last, of the
\* sum of baseCost * costMultiplier^i for i from first to last
RECURSIVE ExactCostNumerator(_, _, _, _)
ExactCostNumerator(c, first, i, last) ==
  IF i > last THEN 0
  ELSE c.baseCost * Pow(c.cmN, i) * Pow(c.cmD, last - i)
       + ExactCostNumerator(c, first, i + 1, last)

\* that sum rounded up to an integer
RoundedUpCost(c, owned, amount) ==
  CeilDiv(ExactCostNumerator(c, owned, owned, owned + amount - 1),
          Pow(c.cmD, owned + amount - 1))

\* C24: getGeneratorCost(g, 1) with owned = n equals
\* ceil(baseCost * costMultiplier^n), and for amount > 1 it equals the sum of
\* baseCost * costMultiplier^i for i from owned to owned+amount-1, rounded up
\* to an integer.
C24_GeneratorCostRoundedUp ==
  \A g \in GeneratorIds, amount \in Amounts :
    getGeneratorCost(g, gameState, amount)
      = RoundedUpCost(INITIAL_IDLE_GENERATORS[g], gameState.idleGenerators[g].owned, amount)

----------------------------------------------------------------------------
(* C25 *)

\* the active bot clicks this often per second of game time
ActiveClicksPerSecond ==
  10

\* C25: in every bot tick the simulated deltaTime used for clicks, click-bank
\* accrual and purchases is at most 1 simulated second, whatever the
\* acceleration factor and the wall-clock gap since the previous tick: the
\* tick's deltaTime is at most 1000 ms, an active tick clicks at most 10 times
\* and a passive tick banks at most 1000 ms worth of clicks.
C25_DeltaTimeAtMostOneSecond ==
  [][ (Tick /\ bot.status = "running")
        => /\ deltaTimeOf(bot, now') <= 1000
           /\ gameState'.totalClicks - gameState.totalClicks <= ActiveClicksPerSecond
           /\ bot'.passiveClickBank - bot.passiveClickBank <= 1000 ]_vars

\* the first tick of an accelerated bot came late: 250 ms at speed 10 are 2.5
\* seconds of game time, and the bot clicked for one second only
C25_Witness ==
  /\ bot.status = "running"
  /\ bot.config.simulationSpeed = 10
  /\ bot.lastUpdateTime = LateFiring
  /\ LateFiring * bot.config.simulationSpeed > 1000
  /\ gameState.totalClicks = ActiveClicksPerSecond

----------------------------------------------------------------------------
(* The bot on a game that has some currency, at speeds below and above the  *)
(* speed from which purchases are batched                                   *)

BatchConfigs ==
  { [mode |-> "active", speed |-> "simulated", simulationSpeed |-> 10,
     maxPrestiges |-> 0, maxDuration |-> 0, maxSP |-> 0],
    [mode |-> "active", speed |-> "simulated", simulationSpeed |-> 20,
     maxPrestiges |-> 0, maxDuration |-> 0, maxSP |-> 0],
    [mode |-> "passive", speed |-> "simulated", simulationSpeed |-> 20,
     maxPrestiges |-> 0, maxDuration |-> 0, maxSP |-> 0] }

InitBatch ==
  /\ gameState \in {updateGeneratorUnlocks(updateCurrency(gs, D(BatchCurrency))) :
                      gs \in {createInitialGameState, persistedGameState}}
  /\ result = "ok"
  /\ phase = "play"
  /\ bot = newGameBot
  /\ now = 0

NextBatch ==
  \/ \E config \in BatchConfigs : Start(config)
  \/ Stop
  \/ Pause
  \/ Resume
  \/ \E elapsed \in {updateRate(bot.config), LateFiring} : Update(elapsed)
  \/ TimePasses

SpecBatch ==
  InitBatch /\ [][NextBatch]_vars

----------------------------------------------------------------------------
(* C26 *)

\* the units of generators and upgrades the store holds
PurchasedUnits(gs) ==
  gs.idleGenerators["bot"].owned + gs.idleGenerators["script-farm"].owned
    + gs.upgrades["base-value-1"].currentPurchases
    + gs.upgrades["click-power-3"].currentPurchases

\* the per-tick cap of the claim
PerTickCap(config) ==
  IF config.simulationSpeed <= 10 THEN 1 ELSE 10

\* C26: the number of purchases the bot commits in a single tick never exceeds
\* the per-tick cap (1 when the simulation speed is at most 10, otherwise 10),
\* and the purchase loop of a tick ends as soon as decideNextPurchase returns
\* 'none' or the cap is reached: a tick that stayed below the cap left nothing
\* the strategy would buy.
C26_PurchasesPerTickCapped ==
  [][ (Tick /\ bot.status = "running"
         /\ gameState'.totalPrestiges = gameState.totalPrestiges)
        => /\ PurchasedUnits(gameState') - PurchasedUnits(gameState)
                <= PerTickCap(bot.config)
           /\ (/\ result' # "throw"
               /\ PurchasedUnits(gameState') - PurchasedUnits(gameState)
                    < PerTickCap(bot.config))
              => decideNextPurchase(getGameState(gameState'),
                                    bot'.recentClickRate).type = "none" ]_vars

\* a tick of the batching bot has bought several units, and a tick of the bot
\* at speed 10 stopped at one although the strategy would buy more
C26_Witness ==
  /\ bot.status = "running"
  /\ bot.lastUpdateTime = SimulatedUpdateRate
  /\ \/ bot.config.simulationSpeed = 20 /\ PurchasedUnits(gameState) >= 3
     \/ /\ bot.config.simulationSpeed = 10
        /\ PurchasedUnits(gameState) = 1
        /\ decideNextPurchase(getGameState(gameState), bot.recentClickRate).type # "none"

----------------------------------------------------------------------------
(* C27 *)

\* the game and the bot of an active tick when its clicks are done and its
\* purchase loop begins
ClickedGame(b, gs, deltaTime) ==
  ClickLoop(gs, IF deltaTime \div 100 < 100 THEN deltaTime \div 100 ELSE 100)

ClickedBot(b, deltaTime) ==
  updateClickRate(countClicks(b, IF deltaTime \div 100 < 100
                                 THEN deltaTime \div 100 ELSE 100),
                  IF deltaTime \div 100 < 100 THEN deltaTime \div 100 ELSE 100,
                  deltaTime)

\* the engine's answer to a decision
Commit(decision, gs) ==
  IF decision.type = "generator"
  THEN GameEngine_purchaseGenerator(decision.id, gs, decision.amount)
  ELSE GameEngine_purchaseUpgrade(decision.id, gs)

\* the first purchase the strategy selects in the tick at time t fails when
\* the engine is asked to commit it
FirstCommitFails(b, gs, t) ==
  \E clicked \in {ClickedGame(b, gs, deltaTimeOf(b, t))} :
    \E decision \in {decideNextPurchase(getGameState(clicked),
                                        ClickedBot(b, deltaTimeOf(b, t)).recentClickRate)} :
      /\ decision.type # "none"
      /\ Commit(decision, clicked).res # "ok"

\* C27: if a purchase selected by the strategy fails at commit time, the tick
\* does not raise an error: no purchase is logged for it, the failed attempt
\* leaves the game state unchanged (the game is as the tick's clicks left it),
\* and the bot stays in the running state for subsequent ticks.
C27_FailedPurchaseIsHarmless ==
  [][ (/\ Tick
       /\ bot.status = "running"
       /\ bot.config.mode = "active"
       /\ FirstCommitFails(bot, gameState, now'))
        => /\ result' # "throw"
           /\ bot'.logger.purchases = bot.logger.purchases
           /\ \/ gameState'.totalPrestiges # gameState.totalPrestiges
              \/ gameState' = ClickedGame(bot, gameState, deltaTimeOf(bot, now'))
           /\ \/ bot'.status = "running"
              \/ StopConditionHolds(bot', gameState', now') ]_vars

----------------------------------------------------------------------------
(* Importing save strings.  A save string either does not parse as JSON or  *)
(* parses to an object that has or lacks the keys version, gameState and    *)
(* settings.                                                                *)

\* what JSON.parse makes of a save string: `json` tells whether it parses
SaveString(json, hasVersion, hasGameState, hasSettings, serialized) ==
  [json |-> json, hasVersion |-> hasVersion, hasGameState |-> hasGameState,
   hasSettings |-> hasSettings, gameState |-> serialized]

\* store.exportSave()
exportSave(gs) ==
  SaveString(TRUE, TRUE, TRUE, TRUE, serializeGameState(gs))

\* an importSave that hands whatever parses to loadGame
importSave_unvalidated(gs, saveString) ==
  IF ~saveString.json \/ ~saveString.hasGameState THEN [gs |-> gs, res |-> FALSE]
  ELSE [gs |-> loadGame(gs, saveString.gameState), res |-> TRUE]

\* store.importSave(saveString): the store it leaves and the value it returns
importSave(gs, saveString) ==
  IF ~saveString.json THEN [gs |-> gs, res |-> FALSE]
  ELSE IF ~saveString.hasVersion \/ ~saveString.hasGameState \/ ~saveString.hasSettings
  THEN [gs |-> gs, res |-> FALSE]
  ELSE [gs |-> loadGame(gs, saveString.gameState), res |-> TRUE]

\* 'invalid json', '{"invalid": "structure"}', an earlier session's export
\* with one key taken out, and that export itself
SaveStrings ==
  { SaveString(FALSE, FALSE, FALSE, FALSE, serializeGameState(persistedGameState)),
    SaveString(TRUE, FALSE, FALSE, FALSE, serializeGameState(persistedGameState)),
    SaveString(TRUE, FALSE, TRUE, TRUE, serializeGameState(persistedGameState)),
    SaveString(TRUE, TRUE, FALSE, TRUE, serializeGameState(persistedGameState)),
    SaveString(TRUE, TRUE, TRUE, FALSE, serializeGameState(persistedGameState)),
    exportSave(persistedGameState) }

\* store.importSave(saveString)
ImportSave(saveString) ==
  /\ gameState' = importSave(gameState, saveString).gs
  /\ result' = (IF importSave(gameState, saveString).res THEN "ok" ELSE "rejected")
  /\ phase' = "play"
  /\ UNCHANGED <<bot, now>>

\* the player exports the game and imports the string again
ExportAndImport ==
  ImportSave(exportSave(gameState))

\* a timer period passes, once
SaveTimePasses ==
  /\ now = 0
  /\ TimePasses

NextSave ==
  \/ \E amount \in EarnAmounts : StoreUpdateCurrency(amount)
  \/ PerformClick
  \/ \E id \in UpgradeIds : ManagerPurchaseUpgrade(id)
  \/ \E id \in GeneratorIds, amount \in Amounts : ManagerPurchaseGenerator(id, amount)
  \/ UpdateUpgradeUnlocks
  \/ UpdateGeneratorUnlocks
  \/ \E saveString \in SaveStrings : ImportSave(saveString)
  \/ ExportAndImport
  \/ SaveTimePasses

SpecSave ==
  Init /\ [][NextSave]_vars

----------------------------------------------------------------------------
(* C28 *)

\* the string is not valid JSON or lacks a required top-level key
Malformed(saveString) ==
  \/ ~saveString.json
  \/ ~saveString.hasVersion
  \/ ~saveString.hasGameState
  \/ ~saveString.hasSettings

\* C28: importSave given a string that is not valid JSON, or that lacks a
\* required top-level key (version, gameState, settings), returns false and
\* leaves the current game state exactly as it was.
C28_MalformedImportRejected ==
  \A saveString \in SaveStrings :
    Malformed(saveString)
      => importSave(gameState, saveString) = [gs |-> gameState, res |-> FALSE]

\* a malformed string was imported into a game in progress, which differs from
\* the game the string would have loaded
C28_Witness ==
  /\ result = "rejected"
  /\ gameState.currency > ZERO
  /\ \E saveString \in SaveStrings :
       /\ Malformed(saveString) /\ saveString.json /\ saveString.hasGameState
       /\ loadGame(gameState, saveString.gameState) # gameState

----------------------------------------------------------------------------
(* C29 *)

\* the numeric fields of two game states are equal
SameNumbers(a, b) ==
  /\ a.currency = b.currency
  /\ a.totalEarned = b.totalEarned
  /\ a.totalClicks = b.totalClicks
  /\ a.clickMultiplier = b.clickMultiplier
  /\ a.baseClickValue = b.baseClickValue
  /\ a.idleMultiplier = b.idleMultiplier
  /\ a.engagement = b.engagement
  /\ a.prestigePoints = b.prestigePoints
  /\ a.totalPrestiges = b.totalPrestiges
  /\ a.metaPrestigePoints = b.metaPrestigePoints
  /\ a.totalMetaPrestiges = b.totalMetaPrestiges
  /\ \A g \in GeneratorIds : a.idleGenerators[g].owned = b.idleGenerators[g].owned
  /\ \A u \in UpgradeIds :
       a.upgrades[u].currentPurchases = b.upgrades[u].currentPurchases

\* the temporary effects of two game states have the same start times and
\* durations
SameEffectTimes(a, b) ==
  /\ Len(a.temporaryEffects) = Len(b.temporaryEffects)
  /\ \A i \in 1..Len(a.temporaryEffects) :
       /\ a.temporaryEffects[i].startTime = b.temporaryEffects[i].startTime
       /\ a.temporaryEffects[i].duration = b.temporaryEffects[i].duration

----------------------------------------------------------------------------
(* C30 *)

\* the step charged the game for a purchase that it did not carry out: the
\* currency is below what the tick's clicks left and no unit was added
LeavesPartialPurchase ==
  /\ gameState'.totalPrestiges = gameState.totalPrestiges
  /\ PurchasedUnits(gameState') = PurchasedUnits(gameState)
  /\ gameState'.currency
       < ClickedGame(bot, gameState, deltaTimeOf(bot, now')).currency

\* C30: bot ticks and engine ticks are strictly serialized: each tick runs to
\* completion before another begins, and no tick ever reads game state that
\* reflects only part of another tick's purchase or prestige transaction.
\* Every tick is one step; no tick starts from a state in which a purchase was
\* broken off, and no tick leaves a purchase charged but not carried out.
C30_NoTickSeesPartialTransaction ==
  [][ (Tick /\ bot.status = "running" /\ bot.config.mode = "active")
        => /\ result # "throw"
           /\ ~LeavesPartialPurchase ]_vars

----------------------------------------------------------------------------
(* C31 *)

\* C31: performPrestige() called while canPrestige() is false changes nothing
\* in the game state: no prestige currency is awarded, totalPrestigeCount is
\* not incremented and no field is reset.
C31_RefusedPrestigeChangesNothing ==
  [][ (PerformPrestige /\ ~canPrestige(gameState))
        => gameState' = gameState ]_vars

\* a call was refused in a game that had currency, clicks and a generator to
\* lose
C31_Witness ==
  /\ ~canPrestige(gameState)
  /\ result = "fail"
  /\ gameState.currency > ZERO
  /\ gameState.totalClicks > 0
  /\ \E g \in GeneratorIds : gameState.idleGenerators[g].owned > 0

----------------------------------------------------------------------------
(* C32 *)

\* r is floor((totalEarned / threshold) ^ (1/2)), in whole units of currency
IsFloorOfPower(r, gs) ==
  /\ r * r * PrestigeThreshold <= gs.totalEarned \div Scale
  /\ gs.totalEarned \div Scale < (r + 1) * (r + 1) * PrestigeThreshold

\* the values the floor can take within the bounds
Roots ==
  0 .. (MaxLateEarned \div PrestigeThreshold)

----------------------------------------------------------------------------
(* start(config) on a running bot                                           *)

\* what start(config) would set up: status, stored configuration, logger
\* session, per-cycle counters, clock marks and the scheduled timer
StartedState(b) ==
  <<b.status, b.config, b.configured, b.logger, b.lastCompletedSession,
    b.currentPrestigeNumber, b.prestigeStartTime, b.lastUpdateTime,
    b.passiveClickBank, b.manualClicksThisPrestige, b.totalClicksThisPrestige,
    b.updateInterval, b.liveIntervals>>

\* C33: calling start(config) while the bot is running has no effect: status,
\* stored configuration, logger session, per-cycle counters and the scheduled
\* timer are unchanged, and so is the game state.
C33_StartWhileRunningIsNoOp ==
  [][ \A config \in Configs :
        (bot.status = "running" /\ Start(config))
        => /\ StartedState(bot') = StartedState(bot)
           /\ gameState' = gameState ]_vars

\* start() was called on a running bot whose ticks had clicked and whose
\* session had run for some time
C33_Witness ==
  /\ bot.status = "running"
  /\ bot.lastControl = "start ignored"
  /\ bot.totalClicksThisPrestige > 0
  /\ bot.lastUpdateTime > bot.logger.startTime
  /\ bot.updateInterval /\ bot.liveIntervals = 1

----------------------------------------------------------------------------
(* NumberFormatter                                                          *)

\* DEFAULT_CONFIG of the formatter; the scientific threshold 1e21 lies
\* beyond the integers of the model
DEFAULT_CONFIG ==
  [useScientificNotation |-> FALSE, maxDecimalPlaces |-> 2, showFullNumbers |-> FALSE]

\* the largest value formatted, in units
MaxFormatted ==
  2000000

\* the entries of SUFFIXES up to MaxFormatted
SUFFIXES ==
  << [value |-> 1000, suffix |-> "K"], [value |-> 1000000, suffix |-> "M"] >>

\* a Decimal inside the formatter: n / d
Num(n, d) ==
  [n |-> n, d |-> d]

\* num.toDecimalPlaces(2, ROUND_HALF_UP), in hundredths
toDecimalPlaces(num) ==
  IF num.d <= 100
  THEN num.n * (100 \div num.d)
  ELSE (num.n + num.d \div 200) \div (num.d \div 100)

\* greaterThanOrEqual(num, value) for a whole value
numAtLeast(num, value) ==
  num.n >= value * num.d

\* the index of the last entry of SUFFIXES that num reaches, 0 when none
suffixIndex(num) ==
  IF numAtLeast(num, SUFFIXES[2].value) THEN 2
  ELSE IF numAtLeast(num, SUFFIXES[1].value) THEN 1
  ELSE 0

RECURSIVE formatSmallNumber(_, _)
RECURSIVE formatWithSuffix(_, _)

\* formatSmallNumber(num, 2): the digits written, as a number of hundredths
\* (trailing zeros are dropped from the text), and the suffixes after them
formatSmallNumber(config, num) ==
  IF ~config.showFullNumbers /\ toDecimalPlaces(num) >= 1000 * 100
  THEN formatWithSuffix(config, Num(toDecimalPlaces(num), 100))
  ELSE [mantissa |-> toDecimalPlaces(num), suffixes |-> <<>>]

\* formatWithSuffix(num, 2)
formatWithSuffix(config, num) ==
  IF suffixIndex(num) = 0
  THEN formatSmallNumber(config, num)
  ELSE [mantissa |->
          formatSmallNumber(config,
            Num(toDecimalPlaces(Num(num.n, num.d * SUFFIXES[suffixIndex(num)].value)),
                100)).mantissa,
        suffixes |->
          formatSmallNumber(config,
            Num(toDecimalPlaces(Num(num.n, num.d * SUFFIXES[suffixIndex(num)].value)),
                100)).suffixes
          \o << SUFFIXES[suffixIndex(num)].suffix >>]

\* format(value) of a value that is not negative, with scientific notation
\* off
format(config, value) ==
  IF value = ZERO THEN [mantissa |-> 0, suffixes |-> <<>>]
  ELSE IF config.showFullNumbers THEN formatSmallNumber(config, Num(value, Scale))
  ELSE IF numAtLeast(Num(value, Scale), 1000)
       THEN formatWithSuffix(config, Num(value, Scale))
       ELSE formatSmallNumber(config, Num(value, Scale))

\* the leading digits of the values formatted, in thousandths
FormatDigits ==
  {1, 4, 5, 6, 10, 14, 15, 994, 995, 996, 1000, 1500, 2000, 42123, 42125,
   100000, 123456, 500000, 999000, 999500, 999949, 999950, 999989, 999990,
   999994, 999995, 999996, 999999, 1000000, 1000001, 1004999, 1005000,
   1500000, 1999994, 1999995}

\* the values formatted: the digits at each magnitude up to MaxFormatted
FormatInputs ==
  UNION {{m * s : m \in {x \in FormatDigits : x <= (MaxFormatted * Scale) \div s}} :
           s \in {1, 1000, 1000000}}

\* a game holding the currency the display formats
InitFormat ==
  /\ \E value \in FormatInputs :
       gameState = [createInitialGameState EXCEPT !.currency = value,
                                                  !.totalEarned = value]
  /\ result = format(DEFAULT_CONFIG, ZERO)
  /\ phase = "play"
  /\ bot = newGameBot
  /\ now = 0

\* formatNumber(gameState.currency)
FormatCurrency ==
  /\ result' = format(DEFAULT_CONFIG, gameState.currency)
  /\ UNCHANGED <<gameState, phase, bot, now>>

NextFormat ==
  FormatCurrency

SpecFormat ==
  InitFormat /\ [][NextFormat]_vars

\* the text the value should get at suffix k (0 none, 1 K, 2 M): the value
\* over the suffix rounded to hundredths, and that one suffix
Expected(value, k) ==
  [mantissa |-> toDecimalPlaces(Num(value, Scale * (IF k = 0 THEN 1 ELSE SUFFIXES[k].value))),
   suffixes |-> IF k = 0 THEN <<>> ELSE << SUFFIXES[k].suffix >>]

\* C34: for every positive value, format() with the default configuration
\* yields a mantissa strictly below 1000 followed by exactly the one suffix
\* of the value's magnitude (none below 1000); a mantissa that rounds up to
\* 1000 goes to the next suffix, so that the output never carries two
\* suffixes.
C34_OneSuffixAndMantissaBelowThousand ==
  result # format(DEFAULT_CONFIG, ZERO)
  => /\ result.mantissa < 1000 * 100
     /\ Len(result.suffixes) <= 1
     /\ \E k \in 0 .. Len(SUFFIXES) : result = Expected(gameState.currency, k)

----------------------------------------------------------------------------
(* The prestiges a finished session reports                                 *)

\* C35: the number of completed prestiges a finished session reports (the
\* length of session.prestiges returned by stop()) equals the number of
\* prestige resets the bot performed during that session, whether stop() was
\* called from outside or by a stop condition inside a tick.
C35_ReportedPrestigesAreResets ==
  (bot.status = "completed" /\ bot.lastCompletedSession.defined)
  => bot.lastCompletedSession.prestiges = bot.currentPrestigeNumber

----------------------------------------------------------------------------
(* The passive bot and its click bank                                       *)

\* passive configurations: real time, simulated at speed 20, and simulated
\* with a negative speed
BankConfigs ==
  { [mode |-> "passive", speed |-> "realtime", simulationSpeed |-> 0,
     maxPrestiges |-> 0, maxDuration |-> 0, maxSP |-> 0],
    [mode |-> "passive", speed |-> "simulated", simulationSpeed |-> 20,
     maxPrestiges |-> 0, maxDuration |-> 0, maxSP |-> 0],
    [mode |-> "passive", speed |-> "simulated", simulationSpeed |-> 0 - 4,
     maxPrestiges |-> 0, maxDuration |-> 0, maxSP |-> 0] }

\* the banks a passive bot has accrued after running for a while: none, just
\* under one click, just under three clicks
AccruedBanks ==
  {0, BankUnitsPerClick - 500, 3 * BankUnitsPerClick - 500}

\* the games the passive bot plays: a fresh one, and one whose player bought
\* a bot generator
BankGames ==
  {createInitialGameState,
   purchaseGenerator("bot",
     updateGeneratorUnlocks(updateCurrency(createInitialGameState, D(BatchCurrency))),
     1).gs}

\* a passive bot started on the game with a positive speed, whose bank has
\* accrued since
InitBank ==
  /\ \E gs \in BankGames, bank \in AccruedBanks,
        config \in {c \in BankConfigs : c.simulationSpeed >= 0} :
       /\ bot = [GameBot_start(newGameBot, gs, config, 0).bot
                   EXCEPT !.passiveClickBank = bank]
       /\ gameState = GameBot_start(newGameBot, gs, config, 0).gs
  /\ result = "ok"
  /\ phase = "play"
  /\ now = 0

NextBank ==
  \/ \E config \in BankConfigs : Start(config)
  \/ Stop
  \/ Pause
  \/ Resume
  \/ \E elapsed \in {updateRate(bot.config), LateFiring} : Update(elapsed)
  \/ TimePasses

SpecBank ==
  InitBank /\ [][NextBank]_vars

\* a tick of the running passive bot
PassiveTick ==
  /\ Tick
  /\ bot.configured /\ bot.status = "running" /\ bot.config.mode = "passive"

\* C36: in passive mode the click bank is never negative, it only grows by
\* the fixed accrual rate times the clamped deltaTime, and the clicks spent in
\* a tick never exceed the whole clicks available in the bank at that tick.
C36_ClickBankAccruesAndCoversSpending ==
  [][ PassiveTick
      => /\ bot'.passiveClickBank >= 0
         /\ deltaTimeOf(bot, now') \in 0 .. 1000
         /\ \E spent \in 0 .. ((bot.passiveClickBank + deltaTimeOf(bot, now'))
                                 \div BankUnitsPerClick) :
              bot'.passiveClickBank =
                bot.passiveClickBank + deltaTimeOf(bot, now') - spent * BankUnitsPerClick
    ]_vars

----------------------------------------------------------------------------
(* The cost the strategy computes and the cost the engine charges           *)

\* C37: for every generator and upgrade in every state, the next-unit cost
\* the bot strategy computes, tests affordability with and records in the
\* purchase log equals the cost the engine checks and deducts when that
\* purchase is committed.
C37_StrategyCostIsEngineCost ==
  /\ \A g \in GeneratorIds :
       calculateGeneratorCost(g, getGameState(gameState))
         = GameEngine_getGeneratorCost(g, getGameState(gameState), 1)
  /\ \A u \in UpgradeIds :
       calculateUpgradeCost(u, getGameState(gameState))
         = GameEngine_getUpgradeCost(u, getGameState(gameState))

----------------------------------------------------------------------------
(* What a purchase decision names                                           *)

\* the entity is one the player may buy now: it exists, is unlocked, is below
\* its purchase maximum, and the currency covers the next unit, at the cost
\* the strategy computes and at the cost the engine charges
Purchasable(type, id, gs) ==
  IF type = "generator"
  THEN /\ id \in GeneratorIds
       /\ gs.idleGenerators[id].unlocked
       /\ calculateGeneratorCost(id, gs) <= gs.currency
       /\ GameEngine_getGeneratorCost(id, gs, 1) <= gs.currency
  ELSE /\ type = "upgrade"
       /\ id \in UpgradeIds
       /\ gs.upgrades[id].unlocked
       /\ gs.upgrades[id].currentPurchases < getInitialUpgrades[id].maxPurchases
       /\ calculateUpgradeCost(id, gs) <= gs.currency
       /\ GameEngine_getUpgradeCost(id, gs) <= gs.currency

\* C38: every decision returned by decideNextPurchase with a type other than
\* 'none' names an existing unlocked entity that is not maxed and whose
\* next-unit cost does not exceed the current currency.
C38_DecisionIsPurchasable ==
  \A rate \in ClickRates :
    decideNextPurchase(getGameState(gameState), rate).type # "none"
    => Purchasable(decideNextPurchase(getGameState(gameState), rate).type,
                   decideNextPurchase(getGameState(gameState), rate).id,
                   getGameState(gameState))

\* a purchase is decided while a locked generator and a maxed upgrade are
\* both within the currency's reach
C38_Witness ==
  /\ \E rate \in ClickRates :
       decideNextPurchase(getGameState(gameState), rate).type # "none"
  /\ \E g \in GeneratorIds :
       /\ ~gameState.idleGenerators[g].unlocked
       /\ calculateGeneratorCost(g, getGameState(gameState)) <= gameState.currency
  /\ \E u \in UpgradeIds :
       /\ gameState.upgrades[u].unlocked
       /\ gameState.upgrades[u].currentPurchases >= getInitialUpgrades[u].maxPurchases
       /\ calculateUpgradeCost(u, getGameState(gameState)) <= gameState.currency

----------------------------------------------------------------------------
(* The gain the bot decides on and the gain the engine awards               *)

\* C39: for every game state, the prestige gain on which the bot's
\* shouldPrestige bases its decision equals the gain that the engine's
\* calculatePrestigeGain reports and performPrestige awards for that state.
C39_BotGainIsEngineGain ==
  /\ D(PotentialGain(gameState.totalEarned)) = calculatePrestigeGain(gameState)
  /\ canPrestige(gameState)
     => performPrestige(gameState).prestigePoints
          = gameState.prestigePoints + D(PotentialGain(gameState.totalEarned))

====
